---- MODULE Spec2Model ----
(***************************************************************************)
(* NewsLingo: the subtitle parser (services/subtitleParser.ts), the        *)
(* translation batcher (services/geminiService.ts), the active-segment     *)
(* lookup and the karaoke highlight of the subtitle list                   *)
(* (components/SubtitleList.tsx), the upload pipeline                      *)
(* (services/sessionProcessor.ts) and the session store (services/db.ts).  *)
(*                                                                         *)
(* Text is a sequence of one-character strings, so that split, trim,       *)
(* includes, parseInt and the tag-stripping replace are computed on the    *)
(* characters as the JavaScript does.                                      *)
(*                                                                         *)
(* A JavaScript number is a record [nan, ms]: nan = TRUE is NaN; otherwise *)
(* ms is the value in thousandths (a time of 3723.004 s is ms = 3723004),  *)
(* which keeps H*3600 + M*60 + S + mmm/1000 in the integers.  Floating     *)
(* point rounding of that sum is not modelled.                             *)
(***************************************************************************)
EXTENDS Integers, Sequences, FiniteSets, TLC

VARIABLES
    timeString,     \* timeToSeconds: its argument
    timeResult,     \* timeToSeconds: the value returned
    timeState,      \* "ready" before the call, "done" after it
    fileName,       \* parseSubtitleFile: file.name
    data,           \* parseSubtitleFile: the text of the file
    cues,           \* the blocks (sequences of lines) the text was written from
    segments,       \* parseSubtitleFile: the segments returned
    parseState,     \* "ready" before the call, "parsed" after it
    listSubtitles,  \* SubtitleList: the subtitles prop
    currentTime,    \* App: currentTime, handed to SubtitleList
    rows,           \* SubtitleList: what each subtitle's row was rendered as
    karaoke,        \* KaraokeText: its props
    currentCharField, \* KaraokeText: the estimated character position
    wordStates,     \* KaraokeText: the state each word was rendered in
    karaokeState,   \* "ready" before the render, "rendered" after it
    options,        \* processAndUploadSession: its options
    stage,          \* processAndUploadSession: the stage it is waiting in
    sessionSubtitles, \* processAndUploadSession: let subtitles
    finalCover,     \* processAndUploadSession: let finalCover
    taskUpdates,    \* the calls of onTaskUpdate so far
    completions,    \* the calls of onComplete so far: the session ids
    errorsReported, \* the calls of onError so far: the messages
    stages,         \* the stages begun and ended so far
    storage,        \* the objects of the bucket: their paths
    table,          \* the rows of the sessions table
    dbOp,           \* the db.ts operation under way and its arguments
    dbPc,           \* the call it awaits; "idle" before, "settled" after
    dbLocal,        \* its local variables
    dbResult,       \* what its promise settled to
    dbCalls,        \* its storage and database calls so far: [call, ok]
    statusLog,      \* its calls of onStatusChange so far
    clock,          \* Date.now(), which names the uploads and the rows
    subtitles,      \* translateSubtitles: its argument
    result,         \* translateSubtitles: result
    i,              \* translateSubtitles: the loop variable
    pc,             \* translateSubtitles: "loop", "await", "returned", "rejected"
    inFlight,       \* generateContent calls issued and not yet settled
    settled,        \* the awaited processBatch: "pending", "resolved", "rejected"
    processedBatch, \* what it resolved to
    progress,       \* the calls of onProgress so far: [completed, total]
    calls,          \* the generateContent calls so far: [input, outcome]
    isUserScrolling, \* SubtitleList: isUserScrolling.current
    scrollTimeout,  \* SubtitleList: scrollTimeout.current, a timer id; 0 for null
    timers,         \* the timeouts pending: [id, left], left the time to their due
    nextTimer,      \* the id window.setTimeout returns next
    sinceScroll,    \* the time since the latest scroll event of the list; -1 before any
    lastAutoScroll, \* the latest scrollIntoView: [row, since], since = sinceScroll then
    seekCommand,    \* App: seekCommand, [set, time]; set = FALSE is null
    mediaCurrentTime, \* PlayerBar: mediaRef.current.currentTime
    seekClicks,     \* the startTime of each subtitle row clicked so far
    isPlaying,      \* App: isPlaying
    aiModalOpen,    \* App: aiModalOpen
    selectedText,   \* App: selectedText
    aiExplanation,  \* App: aiExplanation, [of, kind]: what explainText returned, for which text
    aiLoading,      \* App: aiLoading
    explaining,     \* the explainText calls that have not returned: [id, text]
    analyses,       \* the handleAnalyze calls so far
    activeUpload,   \* App: activeUpload, an UploadTask; NoTask for null
    pipelines,      \* the processAndUploadSession runs started: [pc, state]
    clearTimers,    \* the runs whose 5-second timeout is pending
    lastCallback,   \* the run whose callback or timeout ran last; 0 for none
    uploadPromises  \* saveSession with parallel uploads: mediaUploadPromise and
                    \* coverUploadPromise, [media, cover]

timeVars      == <<timeString, timeResult, timeState>>
parseVars     == <<fileName, data, cues, segments, parseState>>
playerVars    == <<listSubtitles, currentTime, rows>>
karaokeVars   == <<karaoke, currentCharField, wordStates, karaokeState>>
sessionLocals == <<options, stage, sessionSubtitles, finalCover, completions, errorsReported,
                   stages>>
sessionVars   == <<sessionLocals, taskUpdates>>
dbVars        == <<storage, table, dbOp, dbPc, dbLocal, dbResult, dbCalls, statusLog, clock>>
translateVars == <<subtitles, result, i, pc, inFlight, settled, processedBatch, progress, calls>>
scrollVars    == <<isUserScrolling, scrollTimeout, timers, nextTimer, sinceScroll,
                   lastAutoScroll>>
seekVars      == <<seekCommand, mediaCurrentTime, seekClicks>>
modalVars     == <<isPlaying, aiModalOpen, selectedText, aiExplanation, aiLoading, explaining,
                   analyses>>
uploadVars    == <<activeUpload, pipelines, clearTimers, lastCallback>>
parallelVars  == <<uploadPromises>>
appVars       == <<scrollVars, seekVars, modalVars, uploadVars, parallelVars>>
vars          == <<timeVars, parseVars, playerVars, translateVars, karaokeVars, sessionVars,
                   dbVars, appVars>>

(***************************************************************************)
(* String primitives of JavaScript, on sequences of characters             *)
(***************************************************************************)

\* what indexing past the end of an array gives; String(undefined) is
\* the text "undefined", which no character of a file equals
Undefined == <<"undefined">>

At(arr, k) == IF k \in DOMAIN arr THEN arr[k] ELSE Undefined

Whitespace == {" ", "\t", "\n", "\r"}

DigitChars == <<"0", "1", "2", "3", "4", "5", "6", "7", "8", "9">>

IsDigit(c) == \E d \in 1..10 : DigitChars[d] = c

DigitVal(c) == (CHOOSE d \in 1..10 : DigitChars[d] = c) - 1

Drop(s, n) == SubSeq(s, n + 1, Len(s))

StartsWith(s, p) == Len(p) <= Len(s) /\ SubSeq(s, 1, Len(p)) = p

EndsWith(s, p) == Len(p) <= Len(s) /\ SubSeq(s, Len(s) - Len(p) + 1, Len(s)) = p

Includes(s, p) == \E k \in 1..(Len(s) - Len(p) + 1) : SubSeq(s, k, k + Len(p) - 1) = p

\* s.indexOf(p), 1-based; 0 when p does not occur
IndexOf(s, p) ==
    LET hits == {k \in 1..(Len(s) - Len(p) + 1) : SubSeq(s, k, k + Len(p) - 1) = p}
    IN  IF hits = {} THEN 0 ELSE CHOOSE k \in hits : \A j \in hits : k <= j

\* the first position holding a character of the class; 0 when none does
IndexOfAny(s, class) ==
    LET hits == {k \in 1..Len(s) : s[k] \in class}
    IN  IF hits = {} THEN 0 ELSE CHOOSE k \in hits : \A j \in hits : k <= j

TrimStart(s) ==
    LET kept == {k \in 1..Len(s) : s[k] \notin Whitespace}
    IN  IF kept = {} THEN <<>>
        ELSE SubSeq(s, CHOOSE k \in kept : \A j \in kept : k <= j, Len(s))

TrimEnd(s) ==
    LET kept == {k \in 1..Len(s) : s[k] \notin Whitespace}
    IN  IF kept = {} THEN <<>>
        ELSE SubSeq(s, 1, CHOOSE k \in kept : \A j \in kept : k >= j)

Trim(s) == TrimEnd(TrimStart(s))

\* s.replace(/pat/g, rep) for a literal pattern: matches are taken left
\* to right and do not overlap
RECURSIVE ReplaceAll(_, _, _)
ReplaceAll(s, pat, rep) ==
    LET k == IndexOf(s, pat)
    IN  IF k = 0 THEN s
        ELSE SubSeq(s, 1, k - 1) \o rep \o ReplaceAll(Drop(s, k + Len(pat) - 1), pat, rep)

\* s.split(sep) for a non-empty literal separator: "".split(sep) is [""]
RECURSIVE Split(_, _)
Split(s, sep) ==
    LET k == IndexOf(s, sep)
    IN  IF k = 0 THEN <<s>>
        ELSE <<SubSeq(s, 1, k - 1)>> \o Split(Drop(s, k + Len(sep) - 1), sep)

\* s.split(/[...]/) for a character class
RECURSIVE SplitAny(_, _)
SplitAny(s, class) ==
    LET k == IndexOfAny(s, class)
    IN  IF k = 0 THEN <<s>>
        ELSE <<SubSeq(s, 1, k - 1)>> \o SplitAny(Drop(s, k), class)

\* arr.join(sep)
RECURSIVE Join(_, _)
Join(arr, sep) ==
    IF arr = <<>> THEN <<>>
    ELSE IF Len(arr) = 1 THEN arr[1]
    ELSE arr[1] \o sep \o Join(Tail(arr), sep)

(***************************************************************************)
(* JavaScript numbers                                                      *)
(***************************************************************************)

NaN == [nan |-> TRUE, ms |-> 0]

Num(n) == [nan |-> FALSE, ms |-> n]

Plus(x, y) == IF x.nan \/ y.nan THEN NaN ELSE Num(x.ms + y.ms)

\* x * k for a whole number x and a literal k, in thousandths
Times(x, k) == IF x.nan THEN NaN ELSE Num(x.ms * k)

\* the longest run of digits s starts with
LeadingDigits(s) ==
    LET stop == {k \in 1..Len(s) : ~IsDigit(s[k])}
    IN  IF stop = {} THEN s
        ELSE SubSeq(s, 1, (CHOOSE k \in stop : \A j \in stop : k <= j) - 1)

RECURSIVE DigitsValue(_, _)
DigitsValue(ds, acc) ==
    IF ds = <<>> THEN acc ELSE DigitsValue(Tail(ds), acc * 10 + DigitVal(Head(ds)))

\* parseInt(s, 10), as a whole number: leading whitespace skipped, one
\* optional sign, then the longest run of digits; NaN when there is none
parseInt(s) ==
    LET t      == TrimStart(s)
        signed == t # <<>> /\ Head(t) \in {"+", "-"}
        body   == IF signed THEN Tail(t) ELSE t
        ds     == LeadingDigits(body)
    IN  IF ds = <<>> THEN NaN
        ELSE IF signed /\ Head(t) = "-" THEN Num(0 - DigitsValue(ds, 0))
        ELSE Num(DigitsValue(ds, 0))

(***************************************************************************)
(* timeToSeconds                                                           *)
(***************************************************************************)

\* a mutant of timeToSeconds: the minutes weighted like hours
timeToSecondsMinutesAsHours(ts) ==
    LET parts == Split(ts, <<":">>)
    IN  IF Len(parts) = 3 THEN
            LET secParts == SplitAny(parts[3], {",", "."})
            IN  Plus(Plus(Plus(Times(parseInt(parts[1]), 3600000),
                               Times(parseInt(parts[2]), 3600000)),
                          Times(parseInt(secParts[1]), 1000)),
                     parseInt(At(secParts, 2)))
        ELSE IF Len(parts) = 2 THEN
            LET secParts == SplitAny(parts[2], {",", "."})
            IN  Plus(Plus(Times(parseInt(parts[1]), 3600000),
                          Times(parseInt(secParts[1]), 1000)),
                     parseInt(At(secParts, 2)))
        ELSE Num(0)

\* hours * 3600 + minutes * 60 + seconds + ms / 1000, in thousandths
timeToSeconds(ts) ==
    LET parts == Split(ts, <<":">>)
    IN  IF Len(parts) = 3 THEN
            LET hours    == parseInt(parts[1])
                minutes  == parseInt(parts[2])
                secParts == SplitAny(parts[3], {",", "."})
                seconds  == parseInt(secParts[1])
                ms       == parseInt(At(secParts, 2))
            IN  Plus(Plus(Plus(Times(hours, 3600000), Times(minutes, 60000)),
                          Times(seconds, 1000)), ms)
        ELSE IF Len(parts) = 2 THEN
            LET minutes  == parseInt(parts[1])
                secParts == SplitAny(parts[2], {",", "."})
                seconds  == parseInt(secParts[1])
                ms       == parseInt(At(secParts, 2))
            IN  Plus(Plus(Times(minutes, 60000), Times(seconds, 1000)), ms)
        ELSE Num(0)

(***************************************************************************)
(* parseSRT, parseVTT, parseSubtitleFile                                   *)
(***************************************************************************)

LF == <<"\n">>

CR == <<"\r">>

Arrow == <<"-", "-", ">">>

ArrowSep == <<" ", "-", "-", ">", " ">>

\* !x for a string or undefined
Falsy(x) == x = Undefined \/ x = <<>>

\* data.replace(/\r\n/g, '\n').replace(/\r/g, '\n')
NormalizeEOL(text) == ReplaceAll(ReplaceAll(text, CR \o LF, LF), CR, LF)

\* block.split('\n').filter(line => line.trim() !== '')
NonEmptyLines(block) == SelectSeq(Split(block, LF), LAMBDA line : Trim(line) # <<>>)

\* a mutant of StripTags: the pattern greedy, /<.*>/s: from the first '<'
\* that has a later '>' through the last '>'
StripTagsGreedy(s) ==
    LET opens  == {k \in 1..Len(s) : s[k] = "<" /\ \E j \in (k + 1)..Len(s) : s[j] = ">"}
    IN  IF opens = {} THEN s
        ELSE LET k == CHOOSE o \in opens : \A j \in opens : o <= j
                 c == CHOOSE j \in (k + 1)..Len(s) :
                          s[j] = ">" /\ \A g \in (j + 1)..Len(s) : s[g] # ">"
             IN  SubSeq(s, 1, k - 1) \o Drop(s, c)

\* s.replace(/<[^>]*>/g, ''): at a '<' with a later '>', drop through the
\* first such '>'; a '<' with no later '>' stays
RECURSIVE StripTags(_)
StripTags(s) ==
    LET opens == {k \in 1..Len(s) : s[k] = "<" /\ \E j \in (k + 1)..Len(s) : s[j] = ">"}
    IN  IF opens = {} THEN s
        ELSE LET k == CHOOSE o \in opens : \A j \in opens : o <= j
                 c == CHOOSE j \in (k + 1)..Len(s) :
                          s[j] = ">" /\ \A g \in (k + 1)..(j - 1) : s[g] # ">"
             IN  SubSeq(s, 1, k - 1) \o StripTags(Drop(s, c))

\* lines 0-based in the code, 1-based here: the time line is lines[1]
\* when it includes '-->', else lines[2] when that exists and includes it
HasTimeLine(lines) ==
    \/ Includes(lines[1], Arrow)
    \/ (Len(lines) >= 2 /\ Includes(lines[2], Arrow))

TimeLineIndex(lines) == IF Includes(lines[1], Arrow) THEN 1 ELSE 2

\* lines.slice(timeLineIndex + 1).join('\n').replace(/<[^>]*>/g, '')
CueText(lines, timeLineIndex) == StripTags(Join(Drop(lines, timeLineIndex), LF))

\* a mutant of srtBlock: the id read from the index line when there is one
srtBlockIdFromIndexLine(block, idCounter) ==
    LET lines == NonEmptyLines(block)
    IN  IF Len(lines) >= 2 /\ HasTimeLine(lines) THEN
            LET timeLineIndex == TimeLineIndex(lines)
                halves        == Split(lines[timeLineIndex], ArrowSep)
                startStr      == At(halves, 1)
                endStr        == At(halves, 2)
                index         == IF timeLineIndex = 2 THEN parseInt(lines[1]) ELSE NaN
            IN  IF Falsy(startStr) \/ Falsy(endStr) THEN <<>>
                ELSE <<[id        |-> IF index.nan THEN idCounter ELSE index.ms,
                        startTime |-> timeToSeconds(Trim(startStr)),
                        endTime   |-> timeToSeconds(Trim(endStr)),
                        text      |-> CueText(lines, timeLineIndex)]>>
        ELSE <<>>

\* the callback of blocks.forEach in parseSRT: the segments it pushes for
\* one block (none or one), idCounter being the counter's value at entry
srtBlock(block, idCounter) ==
    LET lines == NonEmptyLines(block)
    IN  IF Len(lines) >= 2 /\ HasTimeLine(lines) THEN
            LET timeLineIndex == TimeLineIndex(lines)
                halves        == Split(lines[timeLineIndex], ArrowSep)
                startStr      == At(halves, 1)
                endStr        == At(halves, 2)
            IN  IF Falsy(startStr) \/ Falsy(endStr) THEN <<>>
                ELSE <<[id        |-> idCounter,
                        startTime |-> timeToSeconds(Trim(startStr)),
                        endTime   |-> timeToSeconds(Trim(endStr)),
                        text      |-> CueText(lines, timeLineIndex)]>>
        ELSE <<>>

Webvtt == <<"W", "E", "B", "V", "T", "T">>

\* the callback of blocks.forEach in parseVTT
vttBlock(block, idCounter) ==
    LET lines == NonEmptyLines(block)
    IN  IF Len(lines) = 0 \/ StartsWith(lines[1], Webvtt) THEN <<>>
        ELSE IF HasTimeLine(lines) THEN
            LET timeLineIndex == TimeLineIndex(lines)
                halves        == Split(lines[timeLineIndex], ArrowSep)
                startStr      == At(halves, 1)
                endStr        == At(halves, 2)
            IN  IF Falsy(startStr) \/ Falsy(endStr) THEN <<>>
                ELSE <<[id        |-> idCounter,
                        startTime |-> timeToSeconds(Trim(startStr)),
                        endTime   |-> timeToSeconds(Split(Trim(endStr), <<" ">>)[1]),
                        text      |-> CueText(lines, timeLineIndex)]>>
        ELSE <<>>

\* a mutant of NextId: the counter advanced for every block, pushed or not
NextIdCountingBlocks(idCounter, pushed) == idCounter + 1

\* idCounter++ runs once per segment pushed
NextId(idCounter, pushed) == idCounter + Len(pushed)

RECURSIVE srtForEach(_, _, _)
srtForEach(blocks, segs, idCounter) ==
    IF blocks = <<>> THEN segs
    ELSE LET pushed == srtBlock(Head(blocks), idCounter)
         IN  srtForEach(Tail(blocks), segs \o pushed, NextId(idCounter, pushed))

RECURSIVE vttForEach(_, _, _)
vttForEach(blocks, segs, idCounter) ==
    IF blocks = <<>> THEN segs
    ELSE LET pushed == vttBlock(Head(blocks), idCounter)
         IN  vttForEach(Tail(blocks), segs \o pushed, NextId(idCounter, pushed))

parseSRT(text) == srtForEach(Split(NormalizeEOL(text), LF \o LF), <<>>, 1)

parseVTT(text) == vttForEach(Split(NormalizeEOL(text), LF \o LF), <<>>, 1)

DotVtt == <<".", "v", "t", "t">>

\* a mutant of parseSubtitleFile: the format taken from the content
parseSubtitleFileByContent(name, text) ==
    IF StartsWith(text, Webvtt) THEN parseVTT(text) ELSE parseSRT(text)

parseSubtitleFile(name, text) ==
    IF EndsWith(name, DotVtt) THEN parseVTT(text) ELSE parseSRT(text)

(***************************************************************************)
(* SubtitleList: the active segment                                        *)
(***************************************************************************)

\* x >= y and x < y on JavaScript numbers: false when either is NaN
Geq(x, y) == ~x.nan /\ ~y.nan /\ x.ms >= y.ms

Lt(x, y) == ~x.nan /\ ~y.nan /\ x.ms < y.ms

\* a mutant of IsActive: the end boundary included
IsActiveClosedInterval(s, time) ==
    Geq(time, s.startTime) /\ (Lt(time, s.endTime) \/ time = s.endTime)

\* the predicate handed to findIndex
IsActive(s, time) == Geq(time, s.startTime) /\ Lt(time, s.endTime)

\* a mutant of activeIndex: the last position satisfying the predicate
activeIndexLastMatch ==
    LET hits == {k \in 1..Len(listSubtitles) : IsActive(listSubtitles[k], currentTime)}
    IN  IF hits = {} THEN -1 ELSE (CHOOSE k \in hits : \A j \in hits : k >= j) - 1

\* subtitles.findIndex(s => currentTime >= s.startTime && currentTime < s.endTime):
\* the first position satisfying it, counted from 0; -1 when there is none
activeIndex ==
    LET hits == {k \in 1..Len(listSubtitles) : IsActive(listSubtitles[k], currentTime)}
    IN  IF hits = {} THEN -1 ELSE (CHOOSE k \in hits : \A j \in hits : k <= j) - 1

\* a row of the list: isActive = (index === activeIndex) decides both the
\* highlighted style and whether the first line is a KaraokeText
SubtitleRows ==
    [index \in 1..Len(listSubtitles) |->
        LET isActive == (index - 1 = activeIndex)
        IN  [highlighted |-> isActive, karaoke |-> isActive]]

(***************************************************************************)
(* KaraokeText: the word-by-word highlight                                 *)
(***************************************************************************)

Space == <<" ">>

\* a character position: an integer, or NaN
Count(n) == [nan |-> FALSE, val |-> n]

CountNaN == [nan |-> TRUE, val |-> 0]

Max(a, b) == IF a >= b THEN a ELSE b

\* elapsed / duration is a binary fraction, so that the quotient and its
\* product with totalLength are computed without rounding
ExactQuotient(elapsed, duration) ==
    \E k \in 0..12 : (elapsed * (2 ^ k)) % duration = 0

\* Math.floor(totalLength * (elapsed / duration)) for duration > 0: when the
\* product is a whole number n reached through a rounded quotient, the
\* floating-point product is n or just below it
FloorOfProduct(totalLength, elapsed, duration) ==
    LET n == (totalLength * elapsed) \div duration
    IN  IF (totalLength * elapsed) % duration = 0 /\ n # 0
           /\ ~ExactQuotient(elapsed, duration)
        THEN {Count(n), Count(n - 1)}
        ELSE {Count(n)}

\* the values of currentCharField:
\*   duration = endTime - startTime; elapsed = Math.max(0, currentTime - startTime)
\*   progress = Math.min(1, elapsed / duration)
\*   currentCharField = Math.floor(totalLength * progress)
currentCharFields(props) ==
    IF props.startTime.nan \/ props.endTime.nan \/ props.currentTime.nan
    THEN {CountNaN}
    ELSE LET duration    == props.endTime.ms - props.startTime.ms
             elapsed     == Max(0, props.currentTime.ms - props.startTime.ms)
             totalLength == Len(props.text)
         IN  IF duration = 0
             THEN \* 0 / 0 is NaN; x / 0 is Infinity, and Math.min(1, Infinity) is 1
                  IF elapsed = 0 THEN {CountNaN} ELSE {Count(totalLength)}
             ELSE IF duration > 0
             THEN IF elapsed >= duration THEN {Count(totalLength)}
                  ELSE FloorOfProduct(totalLength, elapsed, duration)
             ELSE \* a negative quotient is below 1 and is the progress
                  {Count(0 - f.val - (IF (totalLength * elapsed) % (0 - duration) = 0
                                      THEN 0 ELSE 1)) :
                      f \in {Count((totalLength * elapsed) \div (0 - duration))}}

\* a mutant of IsCurrent: the space before the word taken in
IsCurrentFromSpaceBefore(startChar, endChar, field) ==
    ~field.nan /\ field.val >= startChar - 1 /\ field.val <= endChar

\* a mutant of IsCurrent: the end of the word excluded
IsCurrentExclusiveEnd(startChar, endChar, field) ==
    ~field.nan /\ field.val >= startChar /\ field.val < endChar

\* isCurrent = currentCharField >= startChar && currentCharField <= endChar
IsCurrent(startChar, endChar, field) ==
    ~field.nan /\ field.val >= startChar /\ field.val <= endChar

\* isPast = endChar < currentCharField
IsPast(endChar, field) == ~field.nan /\ endChar < field.val

\* words.map(...): the class each word's span is given
RECURSIVE KaraokeWords(_, _, _)
KaraokeWords(words, charCount, field) ==
    IF words = <<>> THEN <<>>
    ELSE LET word      == Head(words)
             startChar == charCount
             endChar   == charCount + Len(word)
         IN  << IF IsCurrent(startChar, endChar, field) THEN "current"
                ELSE IF IsPast(endChar, field) THEN "past"
                ELSE "future" >>
             \o KaraokeWords(Tail(words), charCount + Len(word) + 1, field)

\* const [primaryText, ...rest] = sub.text.split('\n')
PrimaryText(text) == Split(text, <<"\n">>)[1]

\* a mutant of ActiveKaraoke: the props of the first row while any is active
ActiveKaraokeOfFirstRow ==
    IF activeIndex = -1
    THEN [text |-> <<>>, startTime |-> NaN, endTime |-> NaN, currentTime |-> NaN]
    ELSE LET sub == listSubtitles[1]
         IN  [text |-> PrimaryText(sub.text), startTime |-> sub.startTime,
              endTime |-> sub.endTime, currentTime |-> currentTime]

\* the props of the KaraokeText the list renders: those of the active row
ActiveKaraoke ==
    IF activeIndex = -1
    THEN [text |-> <<>>, startTime |-> NaN, endTime |-> NaN, currentTime |-> NaN]
    ELSE LET sub == listSubtitles[activeIndex + 1]
         IN  [text |-> PrimaryText(sub.text), startTime |-> sub.startTime,
              endTime |-> sub.endTime, currentTime |-> currentTime]

\* window.setTimeout(..., 2000): the delay, in milliseconds
RESUME_DELAY == 2000

(***************************************************************************)
(* translateSubtitles                                                      *)
(***************************************************************************)

BATCH_SIZE == 15

Min(a, b) == IF a <= b THEN a ELSE b

\* arr.slice(from, to) with 0-based bounds, to excluded and clipped
\* a mutant of Slice: one element past the end index
SliceOneMore(arr, from, to) == SubSeq(arr, from + 1, Min(to + 1, Len(arr)))

Slice(arr, from, to) == SubSeq(arr, from + 1, Min(to, Len(arr)))

\* batch.map(s => ({ id: s.id, text: s.text }))
inputForAi(batch) == [k \in 1..Len(batch) |-> [id |-> batch[k].id, text |-> batch[k].text]]

\* What one generateContent call can come to:
\*   "throws"       the call rejects
\*   "unparseable"  JSON.parse of the cleaned text throws
\*   "notArray"     the text parses to something find or t.id throws on
\*   "array"        the text parses to an array of {id, translation}
Outcome(kind, items) == [kind |-> kind, items |-> items]

Pending == Outcome("pending", <<>>)

\* a mutant of MergeSegment: the k-th result taken for the k-th segment
MergeSegmentByPosition(segment, k, translatedData) ==
    IF k <= Len(translatedData) /\ translatedData[k].translation # <<>>
    THEN [segment EXCEPT !.text = segment.text \o LF \o translatedData[k].translation]
    ELSE segment

\* the callback of batch.map for the segment at position k of the batch:
\* found is the first result whose id is the segment's
MergeSegment(segment, k, translatedData) ==
    LET hits == {j \in 1..Len(translatedData) : translatedData[j].id = segment.id}
    IN  IF hits # {} /\ translatedData[CHOOSE j \in hits : \A h \in hits : j <= h].translation # <<>>
        THEN LET found == translatedData[CHOOSE j \in hits : \A h \in hits : j <= h]
             IN  [segment EXCEPT !.text = segment.text \o LF \o found.translation]
        ELSE segment

\* a mutant of processBatch: only the translated segments returned
processBatchDroppingUntranslated(batch, outcome) ==
    IF outcome.kind # "array" THEN <<>>
    ELSE SelectSeq([k \in 1..Len(batch) |-> MergeSegment(batch[k], k, outcome.items)],
                   LAMBDA seg : Includes(seg.text, LF))

\* what processBatch resolves to, given what its generateContent call came to
processBatch(batch, outcome) ==
    IF outcome.kind # "array" THEN batch
    ELSE [k \in 1..Len(batch) |-> MergeSegment(batch[k], k, outcome.items)]

\* a mutant of processBatchRejects: a rejected call rethrown
processBatchRejectsOnThrow(outcome) == outcome.kind = "throws"

\* both try blocks of processBatch end in a catch that returns the batch:
\* whatever the call comes to, processBatch resolves
processBatchRejects(outcome) == FALSE

\* a mutant of AfterCall: the loop goes on without awaiting the batch
AfterCallNotAwaited == "loop"

\* await processBatch(batch): the loop is suspended until the batch settles
AfterCall == "await"

\* a mutant of CompletedCount: the count not clipped to the total
CompletedCountUnclipped(index, total) == index + BATCH_SIZE

\* Math.min(i + BATCH_SIZE, subtitles.length)
CompletedCount(index, total) == Min(index + BATCH_SIZE, total)

\* the batch of the iteration under way
CurrentBatch == Slice(subtitles, i, i + BATCH_SIZE)

(***************************************************************************)
(* db.ts: saveSession, updateSession, deleteSession                        *)
(*                                                                         *)
(* A path or a message built from a template is the sequence of its parts. *)
(***************************************************************************)

\* no path: null or undefined
NoPath == <<>>

\* fileName = `${Date.now()}_${cleanName}`
MediaPathAt(now) == <<now, "_", "media">>

\* coverFileName = `covers/${Date.now()}_${cleanCoverName}`
CoverPathAt(now) == <<"covers/", now, "_", "cover">>

\* the message of the error a failed call carries
Cause == "cause"

NoOp ==
    [name |-> "none", id |-> 0, title |-> "", hasSubtitles |-> FALSE, subtitles |-> <<>>,
     coverFile |-> FALSE, onStatusChange |-> "none"]

NoLocal == [mediaPath |-> NoPath, coverPath |-> NoPath, filesToRemove |-> {}, progressEvents |-> 0]

Unsettled == [state |-> "pending", value |-> 0, message |-> <<>>]

Resolved(value) == [state |-> "resolved", value |-> value, message |-> <<>>]

Rejected(message) == [state |-> "rejected", value |-> 0, message |-> message]

UploadingMedia == <<"Uploading media (", "1.0", " MB)...">>

UploadingCover == <<"Uploading cover image...">>

SavingSessionData == <<"Saving session data...">>

UploadingNewCover == <<"Uploading new cover...">>

UpdatingDatabase == <<"Updating database...">>

\* what the onStatusChange handed by processAndUploadSession does with the
\* statuses: (status) => onTaskUpdate({ status })
StatusUpdates(callback, statuses) ==
    IF callback = "onTaskUpdate"
    THEN [k \in 1..Len(statuses) |-> [status |-> statuses[k]]]
    ELSE <<>>

\* if (onStatusChange) onStatusChange(status)
StatusCalls(callback, statuses) == IF callback = "none" THEN <<>> ELSE statuses

\* sessionData, as the row the insert stores
SessionRow(id, op, local) ==
    [id |-> id, title |-> op.title, media_path |-> local.mediaPath,
     cover_path |-> local.coverPath, subtitles |-> op.subtitles]

\* updates applied to a row: title, subtitles if given, cover_path if uploaded
UpdatedRow(row, op, local) ==
    [row EXCEPT !.title = op.title,
                !.subtitles = IF op.hasSubtitles THEN op.subtitles ELSE @,
                !.cover_path = IF local.coverPath # NoPath THEN local.coverPath ELSE @]

(***************************************************************************)
(* Inputs: timecodes and subtitle files written out character by character *)
(***************************************************************************)

MaxHours == 2

MaxFree == 3

MaxBlocks == 3

Pad2(n) == <<DigitChars[(n \div 10) + 1], DigitChars[(n % 10) + 1]>>

Pad3(n) == <<DigitChars[(n \div 100) + 1]>> \o Pad2(n % 100)

\* H:MM:SS<sep>mmm
Stamp3(h, m, sec, ms, sep) ==
    Pad2(h) \o <<":">> \o Pad2(m) \o <<":">> \o Pad2(sec) \o <<sep>> \o Pad3(ms)

\* MM:SS<sep>mmm
Stamp2(m, sec, ms, sep) == Pad2(m) \o <<":">> \o Pad2(sec) \o <<sep>> \o Pad3(ms)

HourValues == 0..MaxHours

MinuteValues == {0, 2, 59}

SecondValues == {0, 3, 59}

MilliValues == {0, 4, 999}

Separators == {",", "."}

FreeChars == {"1", ":", ",", "-", "a"}

\* every text of at most MaxFree characters over FreeChars
FreeStrings == UNION {[1..n -> FreeChars] : n \in 0..MaxFree}

NotATime == <<"n", "o", "t", "-", "a", "-", "t", "i", "m", "e">>

TimeStrings ==
    {Stamp3(h, m, sec, ms, sep) :
        h \in HourValues, m \in MinuteValues, sec \in SecondValues,
        ms \in MilliValues, sep \in Separators}
    \cup {Stamp2(m, sec, ms, sep) :
        m \in MinuteValues, sec \in SecondValues, ms \in MilliValues, sep \in Separators}
    \cup FreeStrings \cup {NotATime}

TimeLine(start, end) == start \o ArrowSep \o end

LineHi == <<"H", "i">>

\* an index line that is not the cue's position, time line, text
CueIndexed ==
    << <<"7">>, TimeLine(Stamp3(1, 2, 3, 4, ","), Stamp3(1, 2, 4, 0, ",")), LineHi >>

\* a whitespace-only line, no index line, cue settings after the end time,
\* tags, two text lines
CueBare ==
    << <<" ">>,
       TimeLine(Stamp2(0, 3, 0, "."), Stamp2(0, 4, 250, ".") \o <<" ", "l", ":", "5">>),
       <<"<", "b", ">", "Y", "o", "<", "/", "b", ">">>,
       <<"n", "i">> >>

\* a time line and nothing else
CueNoText == << TimeLine(Stamp3(0, 0, 5, 0, ","), Stamp3(0, 0, 6, 0, ",")) >>

\* neither of the first two lines has an arrow
BlockNoArrow == << <<"3">>, <<"n", "o", "t", "e">>, LineHi >>

\* an arrow without the spaces around it
BlockTightArrow ==
    << <<"4">>, Stamp3(0, 0, 7, 0, ",") \o Arrow \o Stamp3(0, 0, 8, 0, ","), LineHi >>

\* nothing before the arrow
BlockNoStart == << ArrowSep \o Stamp3(0, 0, 8, 0, ","), LineHi >>

\* a leading minus sign; no millisecond part
CueBadStamps ==
    << TimeLine(<<"-">> \o Stamp3(1, 0, 0, 0, ","), <<"0", "0", ":", "1", "0">>), LineHi >>

BlockHeader == << Webvtt >>

Blocks ==
    {CueIndexed, CueBare, CueNoText, BlockNoArrow, BlockTightArrow, BlockNoStart,
     CueBadStamps, BlockHeader}

LineEndings == {LF, CR \o LF, CR}

\* header blocks: the bare token, the token with a title, the token with a
\* note under it, the token with a cue right under it
VttHeaders ==
    { << Webvtt >>,
      << Webvtt \o <<" ", "-", " ", "n">> >>,
      << Webvtt, <<"N", "O", "T", "E">> >>,
      << Webvtt, TimeLine(Stamp2(0, 1, 0, "."), Stamp2(0, 2, 0, ".")), LineHi >> }

VttStamps == {Stamp2(0, 3, 0, "."), Stamp2(0, 4, 250, "."), Stamp3(1, 2, 3, 4, ".")}

\* what stands between the end time and the cue settings: a space, two, a tab
SettingSeparators == { <<" ">>, <<" ", " ">>, <<"\t">> }

\* line:5, vertical, line:5 align:start, abridged
CueSettings ==
    { <<"l", ":", "5">>, <<"v">>, <<"l", ":", "5", " ", "a", ":", "s">> }

VttCue(indexed, start, end) ==
    (IF indexed THEN << <<"7">> >> ELSE <<>>) \o << TimeLine(start, end), LineHi >>

LineHello ==
    <<"H", "e", "l", "l", "o", " ", "<", "b", ">", "w", "o", "r", "l", "d", "<", "/", "b", ">">>

\* text lines with markup: a pair of tags, a '<' inside a tag, a '<' and a
\* '>' that are no tag, a tag left open at the end of a line, the end of a
\* tag at the start of a line, an empty tag
TagLines ==
    { LineHello,
      <<"a", "<", "<", "b", ">", "c">>,
      <<"x", " ", "<", " ", "y">>,
      <<"1", " ", ">", " ", "0">>,
      <<"e", "<", "i">>,
      <<"b", ">", "f">>,
      <<"<", ">", "g">> }

\* the subtitle files handed to processAndUploadSession: empty, without a
\* valid cue block, of one cue, of two cues around a block that is none
SessionFiles ==
    { <<>>,
      <<BlockNoArrow, BlockHeader>>,
      <<CueIndexed>>,
      <<CueIndexed, BlockNoArrow, CueNoText>> }

NameSrt == <<"n", "e", "w", "s", ".", "s", "r", "t">>

NameVtt == <<"n", "e", "w", "s", ".", "v", "t", "t">>

FileNames == {NameSrt, NameVtt}

\* news.srt, news.vtt, news.VTT, news.vtt.txt, vtt, news, .vtt
SubtitleNames ==
    { NameSrt, NameVtt,
      <<"n", "e", "w", "s", ".", "V", "T", "T">>,
      NameVtt \o <<".", "t", "x", "t">>,
      <<"v", "t", "t">>,
      <<"n", "e", "w", "s">>,
      DotVtt }

\* the file: each block's lines ended by eol, a blank line between blocks
RECURSIVE Render(_, _)
Render(blocks, eol) ==
    IF blocks = <<>> THEN <<>>
    ELSE Join(Head(blocks), eol) \o eol
         \o (IF Len(blocks) > 1 THEN eol ELSE <<>>) \o Render(Tail(blocks), eol)

MaxTime == 4

MaxCues == 2

MaxSegments == 31

\* text lines of one cue
MaxTextLines == 3

\* operations of db.ts in one run
MaxOps == 2

\* progress events of one media upload
MaxProgressEvents == 2

\* the list in the page: times up to MaxListTime seconds
MaxListTime == 2

\* scroll events of the list in one run
MaxScrollEvents == 2

\* the start and end times of the list's segments, in whole seconds
ListTimes == {Num(t * 1000) : t \in 0..MaxListTime}

\* the playback times the list is rendered at
ListInstants == ListTimes

\* the texts of the list's segments: two lines, a doubled space, the empty
\* text
ListTexts ==
    { <<"a", " ", "b", "c", " ", "d", "\n", "y", "o">>,
      <<"a", " ", " ", "b">>,
      <<>> }

\* two segments with the same text, their times any, degenerate ones
\* (endTime <= startTime) and overlapping ones among them
ListTrack(text, first, second) ==
    << [id |-> 1, startTime |-> first[1], endTime |-> first[2], text |-> text],
       [id |-> 2, startTime |-> second[1], endTime |-> second[2], text |-> text] >>

\* clicks on subtitle rows in one run
MaxClicks == 2

\* two segments of one second each, starting at a and b
SeekTrack(a, b) ==
    ListTrack(LineHi, <<a, Num(a.ms + 1000)>>, <<b, Num(b.ms + 1000)>>)

\* handleAnalyze calls in one run
MaxAnalyses == 3

\* the first lines of the rows whose AI Explain button is clicked
AnalyzedTexts == {LineHi, LineHello}

\* handleStartUpload calls in one run
MaxUploads == 2

UploadTitles == {<<"A">>, <<"B">>}

\* the instants of the player's clock, in whole seconds
Instants == {Num(t * 1000) : t \in 0..MaxTime}

\* a start or end time of a parsed segment: an instant, or NaN
SegmentTimes == Instants \cup {NaN}

\* the track whose k-th segment has the times times[k] = <<start, end>>
Track(times) ==
    [k \in 1..Len(times) |->
        [id |-> k, startTime |-> times[k][1], endTime |-> times[k][2], text |-> LineHi]]

\* K parsed segments: ids 1..K, texts "s01", "s02", ...
ParsedSegments(K) ==
    [k \in 1..K |-> [id |-> k, startTime |-> Num(k * 1000), endTime |-> Num(k * 1000 + 500),
                     text |-> <<"s">> \o Pad2(k)]]

\* first lines of a segment's text: one word, three words, a doubled space
\* (an empty word between), and the empty text
KaraokeTexts ==
    { <<"H", "i">>,
      <<"a", " ", "b", "c", " ", "d">>,
      <<"a", " ", " ", "b">>,
      <<>> }

Translation(id) == <<"t">> \o Pad2(id)

OtherTranslation(id) == <<"u">> \o Pad2(id)

Item(id, translation) == [id |-> id, translation |-> translation]

FullResponse(input) == [k \in 1..Len(input) |-> Item(input[k].id, Translation(input[k].id))]

Reverse(arr) == [k \in 1..Len(arr) |-> arr[Len(arr) + 1 - k]]

Without(arr, m) == [k \in 1..(Len(arr) - 1) |-> IF k < m THEN arr[k] ELSE arr[k + 1]]

\* the arrays a call for this input is answered with: every id in order;
\* in reverse order; one id missing (the first, the last); an empty
\* translation for the first id; the ids of the next batch instead; the
\* first id twice with different translations; no result at all
ArrayResponses(input) ==
    LET full == FullResponse(input)
    IN  { full,
          Reverse(full),
          Without(full, 1),
          Without(Reverse(full), 1),
          [full EXCEPT ![1] = Item(input[1].id, <<>>)],
          [k \in 1..Len(input) |-> Item(input[k].id + BATCH_SIZE, Translation(input[k].id))],
          <<Item(input[1].id, OtherTranslation(input[1].id))>> \o full,
          <<>> }

(***************************************************************************)
(* Specifications                                                          *)
(***************************************************************************)

TimeOff == timeString = <<>> /\ timeResult = NaN /\ timeState = "off"

ParseOff ==
    /\ fileName = <<>> /\ data = <<>> /\ cues = <<>> /\ segments = <<>>
    /\ parseState = "off"

PlayerOff == listSubtitles = <<>> /\ currentTime = Num(0) /\ rows = <<>>

KaraokeOff ==
    /\ karaoke = [text |-> <<>>, startTime |-> NaN, endTime |-> NaN, currentTime |-> NaN]
    /\ currentCharField = CountNaN /\ wordStates = <<>> /\ karaokeState = "off"

NoAutoScroll == [row |-> -1, since |-> -1]

ScrollOff ==
    /\ isUserScrolling = FALSE /\ scrollTimeout = 0 /\ timers = {} /\ nextTimer = 1
    /\ sinceScroll = -1 /\ lastAutoScroll = NoAutoScroll

NoSeek == [set |-> FALSE, time |-> Num(0)]

SeekTo(time) == [set |-> TRUE, time |-> time]

SeekOff == seekCommand = NoSeek /\ mediaCurrentTime = Num(0) /\ seekClicks = <<>>

\* setAiExplanation(''), and useState('')
NoExplanation == [of |-> <<>>, kind |-> "none"]

\* what explainText(text, ...) returns: response.text; the apology when
\* response.text is empty; the error message when the call throws
Explanation(text, kind) == [of |-> text, kind |-> kind]

ExplanationKinds == {"text", "apology", "error"}

ModalOff ==
    /\ isPlaying = FALSE /\ aiModalOpen = FALSE /\ selectedText = <<>>
    /\ aiExplanation = NoExplanation /\ aiLoading = FALSE /\ explaining = {}
    /\ analyses = 0

\* useState<UploadTask | null>(null)
NoTask == [id |-> <<>>]

\* 'temp-' + Date.now(), for the n-th call of handleStartUpload
TaskId(n) == <<"temp-", n>>

\* { ...prev, ...update }
Merge(prev, update) ==
    [f \in DOMAIN prev \cup DOMAIN update |->
        IF f \in DOMAIN update THEN update[f] ELSE prev[f]]

\* prev => prev ? { ...prev, ...update } : null
MergeIfAny(prev, update) == IF prev = NoTask THEN NoTask ELSE Merge(prev, update)

\* the updates a run makes through onTaskUpdate before the last one: the
\* first within the call of processAndUploadSession, the others after awaits
PipelineUpdates ==
    << [status |-> <<"Parsing subtitles...">>, progress |-> 5],
       [status |-> <<"Starting upload...">>, progress |-> 50],
       [status |-> UploadingMedia],
       [progress |-> 72] >>

\* error.message of what a run throws after its k-th update
PipelineError(k) ==
    IF k = 1 THEN <<"No subtitles found in file">> ELSE <<"Upload failed: ", Cause>>

UploadOff ==
    /\ activeUpload = NoTask /\ pipelines = <<>> /\ clearTimers = {} /\ lastCallback = 0

NoPromises == [media |-> "none", cover |-> "none"]

ParallelOff == uploadPromises = NoPromises

AppOff == ScrollOff /\ SeekOff /\ ModalOff /\ UploadOff /\ ParallelOff

TranslateOff ==
    /\ subtitles = <<>> /\ result = <<>> /\ i = 0 /\ pc = "off" /\ inFlight = 0
    /\ settled = "pending" /\ processedBatch = <<>> /\ progress = <<>> /\ calls = <<>>

SessionOff ==
    /\ options = [autoTranslate |-> FALSE, coverFile |-> FALSE]
    /\ stage = "off" /\ sessionSubtitles = <<>> /\ finalCover = "none"
    /\ taskUpdates = <<>> /\ completions = <<>> /\ errorsReported = <<>> /\ stages = <<>>

DbOff ==
    /\ storage = {} /\ table = {} /\ dbOp = NoOp /\ dbPc = "off" /\ dbLocal = NoLocal
    /\ dbResult = Unsettled /\ dbCalls = <<>> /\ statusLog = <<>> /\ clock = 0

\* ---- timeToSeconds applied to a timecode

InitTime ==
    /\ timeString \in TimeStrings
    /\ timeResult = NaN
    /\ timeState = "ready"
    /\ ParseOff /\ PlayerOff /\ TranslateOff /\ KaraokeOff /\ SessionOff /\ DbOff /\ AppOff

Convert ==
    /\ timeState = "ready"
    /\ timeResult' = timeToSeconds(timeString)
    /\ timeState' = "done"
    /\ UNCHANGED <<timeString, parseVars, playerVars, translateVars, karaokeVars, sessionVars, dbVars, appVars>>

NextTime == Convert

SpecTime == InitTime /\ [][NextTime]_vars

\* ---- parseSubtitleFile applied to a file

InitParse ==
    /\ fileName \in FileNames
    /\ cues \in UNION {[1..n -> Blocks] : n \in 0..MaxBlocks}
    /\ \E eol \in LineEndings : data = Render(cues, eol)
    /\ segments = <<>>
    /\ parseState = "ready"
    /\ TimeOff /\ PlayerOff /\ TranslateOff /\ KaraokeOff /\ SessionOff /\ DbOff /\ AppOff

ParseFile ==
    /\ parseState = "ready"
    /\ segments' = parseSubtitleFile(fileName, data)
    /\ parseState' = "parsed"
    /\ UNCHANGED <<fileName, data, cues, timeVars, playerVars, translateVars, karaokeVars, sessionVars, dbVars, appVars>>

NextParse == ParseFile

SpecParse == InitParse /\ [][NextParse]_vars

\* ---- parseSubtitleFile applied to a cue whose text lines carry markup

InitText ==
    /\ fileName \in FileNames
    /\ \E lines \in UNION {[1..n -> TagLines] : n \in 1..MaxTextLines} :
          cues = << <<TimeLine(Stamp3(0, 0, 5, 0, ","), Stamp3(0, 0, 6, 0, ","))>> \o lines >>
    /\ data = Render(cues, LF)
    /\ segments = <<>>
    /\ parseState = "ready"
    /\ TimeOff /\ PlayerOff /\ TranslateOff /\ KaraokeOff /\ SessionOff /\ DbOff /\ AppOff

SpecText == InitText /\ [][NextParse]_vars

\* ---- parseSubtitleFile applied to a .vtt file: a header block, a cue
\* with cue settings after its end time, the same cue without them

InitVtt ==
    /\ fileName = NameVtt
    /\ \E header \in VttHeaders, start \in VttStamps, end \in VttStamps,
          sep \in SettingSeparators, settings \in CueSettings, indexed \in BOOLEAN :
          cues = << header,
                    VttCue(indexed, start, end \o sep \o settings),
                    VttCue(indexed, start, end) >>
    /\ data = Render(cues, LF)
    /\ segments = <<>>
    /\ parseState = "ready"
    /\ TimeOff /\ PlayerOff /\ TranslateOff /\ KaraokeOff /\ SessionOff /\ DbOff /\ AppOff

SpecVtt == InitVtt /\ [][NextParse]_vars

\* ---- parseSubtitleFile applied to the same content under several names:
\* a cue, after a header block or not

InitName ==
    /\ fileName \in SubtitleNames
    /\ \E header \in VttHeaders, start \in VttStamps, end \in VttStamps,
          indexed \in BOOLEAN, headed \in BOOLEAN :
          cues = (IF headed THEN <<header>> ELSE <<>>) \o << VttCue(indexed, start, end) >>
    /\ \E eol \in LineEndings : data = Render(cues, eol)
    /\ segments = <<>>
    /\ parseState = "ready"
    /\ TimeOff /\ PlayerOff /\ TranslateOff /\ KaraokeOff /\ SessionOff /\ DbOff /\ AppOff

SpecName == InitName /\ [][NextParse]_vars

\* ---- SubtitleList rendered as the playback time changes

InitPlayer ==
    /\ \E n \in 0..MaxCues :
          \E times \in [1..n -> SegmentTimes \X SegmentTimes] : listSubtitles = Track(times)
    /\ currentTime = Num(0)
    /\ rows = SubtitleRows
    /\ TimeOff /\ ParseOff /\ TranslateOff /\ KaraokeOff /\ SessionOff /\ DbOff /\ AppOff

\* onTimeUpdate(mediaRef.current.currentTime), which is setCurrentTime;
\* SubtitleList is rendered again with the new time
handleTimeUpdate ==
    /\ \E time \in Instants : currentTime' = time
    /\ UNCHANGED listSubtitles
    /\ rows' = SubtitleRows'
    /\ UNCHANGED <<timeVars, parseVars, translateVars, karaokeVars, sessionVars, dbVars, appVars>>

NextPlayer == handleTimeUpdate

SpecPlayer == InitPlayer /\ [][NextPlayer]_vars

\* ---- KaraokeText rendered with its props

InitKaraoke ==
    /\ \E text \in KaraokeTexts, startTime \in SegmentTimes, endTime \in SegmentTimes,
          time \in Instants :
          karaoke = [text |-> text, startTime |-> startTime, endTime |-> endTime,
                     currentTime |-> time]
    /\ currentCharField = CountNaN
    /\ wordStates = <<>>
    /\ karaokeState = "ready"
    /\ TimeOff /\ ParseOff /\ PlayerOff /\ TranslateOff /\ SessionOff /\ DbOff /\ AppOff

KaraokeText ==
    /\ karaokeState = "ready"
    /\ \E field \in currentCharFields(karaoke) :
          /\ currentCharField' = field
          /\ wordStates' = KaraokeWords(Split(karaoke.text, Space), 0, field)
    /\ karaokeState' = "rendered"
    /\ UNCHANGED <<karaoke, timeVars, parseVars, playerVars, translateVars, sessionVars, dbVars, appVars>>

NextKaraoke == KaraokeText

SpecKaraoke == InitKaraoke /\ [][NextKaraoke]_vars

\* ---- SubtitleList in the page: the playback time changes, the list is
\* scrolled, time passes and the timeouts run

otherThanList == <<timeVars, parseVars, translateVars, sessionVars, dbVars, seekVars, modalVars,
                   uploadVars, parallelVars>>

\* the first render and the effect after it
InitList ==
    /\ \E text \in ListTexts, first \in ListTimes \X ListTimes, second \in ListTimes \X ListTimes :
          listSubtitles = ListTrack(text, first, second)
    /\ currentTime = Num(0)
    /\ rows = SubtitleRows
    /\ karaoke = ActiveKaraoke
    /\ IF activeIndex = -1
       THEN currentCharField = CountNaN /\ wordStates = <<>> /\ karaokeState = "off"
       ELSE /\ currentCharField \in currentCharFields(karaoke)
            /\ wordStates = KaraokeWords(Split(karaoke.text, Space), 0, currentCharField)
            /\ karaokeState = "rendered"
    /\ isUserScrolling = FALSE /\ scrollTimeout = 0 /\ timers = {} /\ nextTimer = 1
    /\ sinceScroll = -1
    /\ lastAutoScroll = IF activeIndex = -1 THEN NoAutoScroll
                        ELSE [row |-> activeIndex, since |-> sinceScroll]
    /\ TimeOff /\ ParseOff /\ TranslateOff /\ SessionOff /\ DbOff /\ SeekOff /\ ModalOff
    /\ UploadOff /\ ParallelOff

\* SubtitleList rendered again: the rows, and a KaraokeText for the first
\* line of the active one
RenderList ==
    /\ rows' = SubtitleRows'
    /\ karaoke' = ActiveKaraoke'
    /\ IF activeIndex' = -1
       THEN currentCharField' = CountNaN /\ wordStates' = <<>> /\ karaokeState' = "off"
       ELSE /\ currentCharField' \in currentCharFields(karaoke')
            /\ wordStates' = KaraokeWords(Split(karaoke'.text, Space), 0, currentCharField')
            /\ karaokeState' = "rendered"

\* useEffect(() => { if (activeRef.current && !isUserScrolling.current)
\*   activeRef.current.scrollIntoView(...) }, [activeIndex]): run after a
\* render that changed activeIndex; activeRef.current is the active row
ScrollEffect ==
    IF activeIndex' # activeIndex /\ activeIndex' # -1 /\ ~isUserScrolling
    THEN lastAutoScroll' = [row |-> activeIndex', since |-> sinceScroll]
    ELSE UNCHANGED lastAutoScroll

\* onTimeUpdate={setCurrentTime}: the list is rendered with the new time
\* and its effect runs
onTimeUpdate ==
    /\ \E time \in ListInstants : currentTime' = time
    /\ UNCHANGED listSubtitles
    /\ RenderList
    /\ ScrollEffect
    /\ UNCHANGED <<isUserScrolling, scrollTimeout, timers, nextTimer, sinceScroll>>
    /\ UNCHANGED otherThanList

\* a mutant of handleScroll: the pending timeout not cleared
handleScrollKeepingTimer ==
    /\ nextTimer <= MaxScrollEvents
    /\ isUserScrolling' = TRUE
    /\ timers' = timers \cup {[id |-> nextTimer, left |-> RESUME_DELAY]}
    /\ scrollTimeout' = nextTimer
    /\ nextTimer' = nextTimer + 1
    /\ sinceScroll' = 0
    /\ UNCHANGED <<lastAutoScroll, playerVars, karaokeVars, otherThanList>>

\* onScroll={handleScroll}: a scroll event of the list, the user's or the
\* one a scrollIntoView causes
handleScroll ==
    /\ nextTimer <= MaxScrollEvents
    /\ isUserScrolling' = TRUE
    /\ timers' = {t \in timers : t.id # scrollTimeout}
                    \cup {[id |-> nextTimer, left |-> RESUME_DELAY]}
    /\ scrollTimeout' = nextTimer
    /\ nextTimer' = nextTimer + 1
    /\ sinceScroll' = 0
    /\ UNCHANGED <<lastAutoScroll, playerVars, karaokeVars, otherThanList>>

\* the callback of a timeout that is due: isUserScrolling.current = false
ScrollTimeoutRuns ==
    /\ \E t \in timers :
          /\ t.left = 0
          /\ timers' = timers \ {t}
    /\ isUserScrolling' = FALSE
    /\ UNCHANGED <<scrollTimeout, nextTimer, sinceScroll, lastAutoScroll>>
    /\ UNCHANGED <<playerVars, karaokeVars, otherThanList>>

\* half of the delay passes; a timeout may run later than it is due
TimePasses ==
    /\ timers' = {[t EXCEPT !.left = Max(0, t.left - RESUME_DELAY \div 2)] : t \in timers}
    /\ sinceScroll' = IF sinceScroll = -1 THEN -1
                      ELSE Min(RESUME_DELAY, sinceScroll + RESUME_DELAY \div 2)
    /\ UNCHANGED <<isUserScrolling, scrollTimeout, nextTimer, lastAutoScroll>>
    /\ UNCHANGED <<playerVars, karaokeVars, otherThanList>>

NextList == onTimeUpdate \/ handleScroll \/ ScrollTimeoutRuns \/ TimePasses

SpecList == InitList /\ [][NextList]_vars

\* ---- the player page: subtitle rows are clicked, the media plays, its
\* timeupdate events and the slider set the time

otherThanSeek == <<timeVars, parseVars, translateVars, karaokeVars, sessionVars, dbVars,
                   scrollVars, modalVars, uploadVars, parallelVars>>

InitSeek ==
    /\ \E a \in ListTimes, b \in ListTimes : listSubtitles = SeekTrack(a, b)
    /\ currentTime = Num(0)
    /\ rows = SubtitleRows
    /\ seekCommand = NoSeek
    /\ mediaCurrentTime = Num(0)
    /\ seekClicks = <<>>
    /\ TimeOff /\ ParseOff /\ TranslateOff /\ KaraokeOff /\ SessionOff /\ DbOff /\ ScrollOff
    /\ ModalOff /\ UploadOff /\ ParallelOff

\* useEffect(() => { if (seekCommand !== null && mediaRef.current)
\*   mediaRef.current.currentTime = seekCommand }, [seekCommand]): run after
\* a render in which seekCommand changed; setting a state to the value it
\* has renders nothing
SeekEffect ==
    IF seekCommand' # seekCommand /\ seekCommand'.set
    THEN mediaCurrentTime' = seekCommand'.time
    ELSE UNCHANGED mediaCurrentTime

\* onClick={() => onSeek(sub.startTime)}, onSeek being handleSubtitleSeek:
\* setSeekCommand(time), then PlayerBar's effect
handleSubtitleSeek ==
    /\ Len(seekClicks) < MaxClicks
    /\ \E k \in 1..Len(listSubtitles) :
          /\ seekCommand' = SeekTo(listSubtitles[k].startTime)
          /\ seekClicks' = Append(seekClicks, listSubtitles[k].startTime)
    /\ SeekEffect
    /\ UNCHANGED <<playerVars, otherThanSeek>>

\* the media plays on for half a second
MediaPlays ==
    /\ mediaCurrentTime.ms + 500 <= MaxListTime * 1000
    /\ mediaCurrentTime' = Num(mediaCurrentTime.ms + 500)
    /\ UNCHANGED <<seekCommand, seekClicks, playerVars, otherThanSeek>>

\* onTimeUpdate={handleTimeUpdate} of the media element:
\* onTimeUpdate(mediaRef.current.currentTime)
MediaTimeUpdate ==
    /\ currentTime' = mediaCurrentTime
    /\ UNCHANGED listSubtitles
    /\ rows' = SubtitleRows'
    /\ UNCHANGED <<seekVars, otherThanSeek>>

\* the slider: onTimeUpdate(time); mediaRef.current.currentTime = time
handleSeek ==
    /\ \E time \in ListInstants :
          /\ currentTime' = time
          /\ mediaCurrentTime' = time
    /\ UNCHANGED listSubtitles
    /\ rows' = SubtitleRows'
    /\ UNCHANGED <<seekCommand, seekClicks, otherThanSeek>>

NextSeek == handleSubtitleSeek \/ MediaPlays \/ MediaTimeUpdate \/ handleSeek

SpecSeek == InitSeek /\ [][NextSeek]_vars

\* ---- the AI modal: AI Explain is clicked, explainText returns, the modal
\* is closed, play is toggled

otherThanModal == <<timeVars, parseVars, playerVars, translateVars, karaokeVars, sessionVars,
                    dbVars, scrollVars, seekVars, uploadVars, parallelVars>>

InitModal ==
    /\ isPlaying \in BOOLEAN
    /\ aiModalOpen = FALSE /\ selectedText = <<>> /\ aiExplanation = NoExplanation
    /\ aiLoading = FALSE /\ explaining = {} /\ analyses = 0
    /\ TimeOff /\ ParseOff /\ PlayerOff /\ TranslateOff /\ KaraokeOff /\ SessionOff /\ DbOff
    /\ ScrollOff /\ SeekOff /\ UploadOff /\ ParallelOff

\* handleAnalyze(text), up to its await: the states set and explainText called
handleAnalyze ==
    /\ analyses < MaxAnalyses
    /\ \E text \in AnalyzedTexts :
          /\ selectedText' = text
          /\ explaining' = explaining \cup {[id |-> analyses + 1, text |-> text]}
    /\ analyses' = analyses + 1
    /\ isPlaying' = FALSE
    /\ aiModalOpen' = TRUE
    /\ aiLoading' = TRUE
    /\ aiExplanation' = NoExplanation
    /\ UNCHANGED otherThanModal

\* explainText returns to the handleAnalyze that called it:
\* setAiExplanation(explanation); setAiLoading(false)
ExplainTextReturns ==
    /\ \E call \in explaining, kind \in ExplanationKinds :
          /\ explaining' = explaining \ {call}
          /\ aiExplanation' = Explanation(call.text, kind)
    /\ aiLoading' = FALSE
    /\ UNCHANGED <<isPlaying, aiModalOpen, selectedText, analyses>>
    /\ UNCHANGED otherThanModal

\* onClose={() => setAiModalOpen(false)}
onClose ==
    /\ aiModalOpen
    /\ aiModalOpen' = FALSE
    /\ UNCHANGED <<isPlaying, selectedText, aiExplanation, aiLoading, explaining, analyses>>
    /\ UNCHANGED otherThanModal

\* onPlayStateChange={setIsPlaying}: play or pause
onPlayStateChange ==
    /\ isPlaying' = ~isPlaying
    /\ UNCHANGED <<aiModalOpen, selectedText, aiExplanation, aiLoading, explaining, analyses>>
    /\ UNCHANGED otherThanModal

NextModal == handleAnalyze \/ ExplainTextReturns \/ onClose \/ onPlayStateChange

SpecModal == InitModal /\ [][NextModal]_vars

\* ---- background uploads: handleStartUpload is called, the runs of
\* processAndUploadSession call back, the 5-second timeouts run

otherThanUpload == <<timeVars, parseVars, playerVars, translateVars, karaokeVars, sessionVars,
                     dbVars, scrollVars, seekVars, modalVars, parallelVars>>

InitUpload ==
    /\ activeUpload = NoTask /\ pipelines = <<>> /\ clearTimers = {} /\ lastCallback = 0
    /\ TimeOff /\ ParseOff /\ PlayerOff /\ TranslateOff /\ KaraokeOff /\ SessionOff /\ DbOff
    /\ ScrollOff /\ SeekOff /\ ModalOff /\ ParallelOff

Running(p) == p \in 1..Len(pipelines) /\ pipelines[p].state = "running"

\* handleStartUpload(options): setActiveUpload(newTask), and
\* processAndUploadSession run up to its first await, its first
\* onTaskUpdate included
handleStartUpload ==
    /\ Len(pipelines) < MaxUploads
    /\ \E title \in UploadTitles :
          activeUpload' =
              MergeIfAny([id |-> TaskId(Len(pipelines) + 1), title |-> title, progress |-> 0,
                          status |-> <<"Initializing...">>],
                         PipelineUpdates[1])
    /\ pipelines' = Append(pipelines, [pc |-> 1, state |-> "running"])
    /\ lastCallback' = 0
    /\ UNCHANGED clearTimers
    /\ UNCHANGED otherThanUpload

\* (update) => setActiveUpload(prev => prev ? { ...prev, ...update } : null)
onTaskUpdate(p) ==
    /\ Running(p)
    /\ pipelines[p].pc < Len(PipelineUpdates)
    /\ activeUpload' = MergeIfAny(activeUpload, PipelineUpdates[pipelines[p].pc + 1])
    /\ pipelines' = [pipelines EXCEPT ![p].pc = @ + 1]
    /\ lastCallback' = p
    /\ UNCHANGED clearTimers
    /\ UNCHANGED otherThanUpload

\* onTaskUpdate({ progress: 100, status: 'Complete' }); onComplete(sessionId):
\* setActiveUpload(null); window.location.reload(), which ends every run and
\* timeout of the page
onComplete(p) ==
    /\ Running(p)
    /\ pipelines[p].pc = Len(PipelineUpdates)
    /\ activeUpload' = NoTask
    /\ pipelines' = [q \in 1..Len(pipelines) |->
                        [pipelines[q] EXCEPT !.state =
                            IF q = p THEN "completed"
                            ELSE IF @ = "running" THEN "reloaded" ELSE @]]
    /\ clearTimers' = {}
    /\ lastCallback' = p
    /\ UNCHANGED otherThanUpload

\* (error) => { setActiveUpload(prev => prev ? { ...prev, error, status:
\* 'Failed' } : null); setTimeout(() => setActiveUpload(null), 5000) }
onError(p) ==
    /\ Running(p)
    /\ activeUpload' = MergeIfAny(activeUpload,
                                  [error |-> PipelineError(pipelines[p].pc),
                                   status |-> <<"Failed">>])
    /\ pipelines' = [pipelines EXCEPT ![p].state = "failed"]
    /\ clearTimers' = clearTimers \cup {p}
    /\ lastCallback' = p
    /\ UNCHANGED otherThanUpload

\* the timeout of onError, 5 seconds later: setActiveUpload(null)
ClearTimeoutRuns(p) ==
    /\ p \in clearTimers
    /\ activeUpload' = NoTask
    /\ clearTimers' = clearTimers \ {p}
    /\ lastCallback' = p
    /\ UNCHANGED pipelines
    /\ UNCHANGED otherThanUpload

NextUpload ==
    \/ handleStartUpload
    \/ \E p \in 1..MaxUploads :
          onTaskUpdate(p) \/ onComplete(p) \/ onError(p) \/ ClearTimeoutRuns(p)

SpecUpload == InitUpload /\ [][NextUpload]_vars

\* the onProgress handed by processAndUploadSession:
\* onTaskUpdate({ progress: 10 + Math.floor((completed / total) * 30),
\*                status: `AI Translating (${completed}/${total})...` })
\* a mutant of ProgressUpdates: the translation mapped to 10..60
ProgressUpdatesUpTo60(caller, completed, total) ==
    IF caller = "translate"
    THEN << [progress |-> 10 + (completed * 50) \div total,
             status |-> <<"AI Translating (", completed, "/", total, ")...">>] >>
    ELSE <<>>

ProgressUpdates(caller, completed, total) ==
    IF caller = "translate"
    THEN << [progress |-> 10 + (completed * 30) \div total,
             status |-> <<"AI Translating (", completed, "/", total, ")...">>] >>
    ELSE <<>>

\* ---- db.ts: the operations on the bucket and the sessions table

otherThanDb == <<timeVars, parseVars, playerVars, translateVars, karaokeVars, sessionLocals,
                 appVars>>

\* the call made and what it came to
Called(call, ok) == dbCalls' = Append(dbCalls, [call |-> call, ok |-> ok])

\* onStatusChange(status), for each of the statuses
onStatusChange(statuses) ==
    /\ statusLog' = statusLog \o StatusCalls(dbOp.onStatusChange, statuses)
    /\ taskUpdates' = taskUpdates \o StatusUpdates(dbOp.onStatusChange, statuses)

\* saveSession up to its first await: the media upload is started; before
\* are the task updates its caller made in the same step
saveSession(title, subs, coverFile, callback, before) ==
    /\ dbPc \in {"idle", "settled"}
    /\ clock' = clock + 1
    /\ dbOp' = [NoOp EXCEPT !.name = "saveSession", !.title = title, !.hasSubtitles = TRUE,
                            !.subtitles = subs, !.coverFile = coverFile,
                            !.onStatusChange = callback]
    /\ dbLocal' = [NoLocal EXCEPT !.mediaPath = MediaPathAt(clock + 1)]
    /\ dbPc' = "uploadMedia"
    /\ dbResult' = Unsettled
    /\ dbCalls' = <<>>
    /\ statusLog' = StatusCalls(callback, <<UploadingMedia>>)
    /\ taskUpdates' = taskUpdates \o before \o StatusUpdates(callback, <<UploadingMedia>>)
    /\ UNCHANGED <<storage, table>>

\* xhr.upload.onprogress: onUploadProgress(percent), which in
\* processAndUploadSession is onTaskUpdate({ progress: 50 + floor(percent * 0.45) })
UploadProgress ==
    /\ dbPc = "uploadMedia"
    /\ dbLocal.progressEvents < MaxProgressEvents
    /\ dbLocal' = [dbLocal EXCEPT !.progressEvents = @ + 1]
    /\ \E percent \in {0, 50, 100} :
          taskUpdates' = IF dbOp.onStatusChange = "onTaskUpdate"
                         THEN Append(taskUpdates, [progress |-> 50 + (percent * 45) \div 100])
                         ELSE taskUpdates
    /\ UNCHANGED <<storage, table, dbOp, dbPc, dbResult, dbCalls, statusLog, clock>>
    /\ UNCHANGED otherThanDb

\* await uploadFileWithProgress(...): on failure throw 'Upload failed: ...'
MediaUpload(ok) ==
    /\ dbPc = "uploadMedia"
    /\ Called("mediaUpload", ok)
    /\ IF ok
       THEN /\ storage' = storage \cup {dbLocal.mediaPath}
            /\ dbResult' = dbResult
            /\ IF dbOp.coverFile
               THEN onStatusChange(<<UploadingCover>>) /\ dbPc' = "uploadCover"
               ELSE onStatusChange(<<SavingSessionData>>) /\ dbPc' = "insert"
       ELSE /\ dbResult' = Rejected(<<"Upload failed: ", Cause>>)
            /\ dbPc' = "settled"
            /\ UNCHANGED <<storage, statusLog, taskUpdates>>
    /\ UNCHANGED <<table, dbOp, dbLocal, clock>>
    /\ UNCHANGED otherThanDb

\* await supabase.storage...upload(coverFileName, coverFile): a failure is
\* warned about and the save goes on without a cover
SaveCoverUpload(ok) ==
    /\ dbPc = "uploadCover"
    /\ dbOp.name = "saveSession"
    /\ Called("coverUpload", ok)
    /\ IF ok
       THEN /\ storage' = storage \cup {CoverPathAt(clock)}
            /\ dbLocal' = [dbLocal EXCEPT !.coverPath = CoverPathAt(clock)]
       ELSE UNCHANGED <<storage, dbLocal>>
    /\ onStatusChange(<<SavingSessionData>>)
    /\ dbPc' = "insert"
    /\ UNCHANGED <<table, dbOp, dbResult, clock>>
    /\ UNCHANGED otherThanDb

\* a mutant of Insert: a failed insert rejects at once, nothing removed
InsertWithoutCleanup(ok) ==
    /\ dbPc = "insert"
    /\ Called("insert", ok)
    /\ IF ok
       THEN /\ table' = table \cup {SessionRow(clock, dbOp, dbLocal)}
            /\ dbResult' = Resolved(clock)
       ELSE /\ dbResult' = Rejected(<<"Database save failed: ", Cause>>)
            /\ UNCHANGED table
    /\ dbPc' = "settled"
    /\ UNCHANGED <<storage, dbOp, dbLocal, statusLog, clock, taskUpdates>>
    /\ UNCHANGED otherThanDb

\* await supabase.from(TABLE_NAME).insert([sessionData]).select().single():
\* return insertData.id, or on insertError go on to the cleanup
Insert(ok) ==
    /\ dbPc = "insert"
    /\ Called("insert", ok)
    /\ IF ok
       THEN /\ table' = table \cup {SessionRow(clock, dbOp, dbLocal)}
            /\ dbResult' = Resolved(clock)
            /\ dbPc' = "settled"
       ELSE /\ dbPc' = "cleanup"
            /\ UNCHANGED <<table, dbResult>>
    /\ UNCHANGED <<storage, dbOp, dbLocal, statusLog, clock, taskUpdates>>
    /\ UNCHANGED otherThanDb

\* await supabase.storage.from(BUCKET_NAME).remove([mediaPath]), its outcome
\* not looked at; then throw 'Database save failed: ...'
CleanupRemove(ok) ==
    /\ dbPc = "cleanup"
    /\ Called("cleanupRemove", ok)
    /\ storage' = IF ok THEN storage \ {dbLocal.mediaPath} ELSE storage
    /\ dbResult' = Rejected(<<"Database save failed: ", Cause>>)
    /\ dbPc' = "settled"
    /\ UNCHANGED <<table, dbOp, dbLocal, statusLog, clock, taskUpdates>>
    /\ UNCHANGED otherThanDb

\* updateSession up to its first await
updateSession(id, title, hasSubtitles, subs, coverFile, callback) ==
    /\ dbPc \in {"idle", "settled"}
    /\ clock' = clock + 1
    /\ dbOp' = [NoOp EXCEPT !.name = "updateSession", !.id = id, !.title = title,
                            !.hasSubtitles = hasSubtitles, !.subtitles = subs,
                            !.coverFile = coverFile, !.onStatusChange = callback]
    /\ dbLocal' = NoLocal
    /\ dbResult' = Unsettled
    /\ dbCalls' = <<>>
    /\ IF coverFile
       THEN statusLog' = StatusCalls(callback, <<UploadingNewCover>>) /\ dbPc' = "updateCover"
       ELSE statusLog' = StatusCalls(callback, <<UpdatingDatabase>>) /\ dbPc' = "update"
    /\ UNCHANGED <<storage, table, taskUpdates>>

\* the cover upload of updateSession: on failure throw 'Cover upload failed: ...'
UpdateCoverUpload(ok) ==
    /\ dbPc = "updateCover"
    /\ Called("coverUpload", ok)
    /\ IF ok
       THEN /\ storage' = storage \cup {CoverPathAt(clock)}
            /\ dbLocal' = [dbLocal EXCEPT !.coverPath = CoverPathAt(clock)]
            /\ onStatusChange(<<UpdatingDatabase>>)
            /\ dbPc' = "update"
            /\ UNCHANGED dbResult
       ELSE /\ dbResult' = Rejected(<<"Cover upload failed: ", Cause>>)
            /\ dbPc' = "settled"
            /\ UNCHANGED <<storage, dbLocal, statusLog, taskUpdates>>
    /\ UNCHANGED <<table, dbOp, clock>>
    /\ UNCHANGED otherThanDb

\* a mutant of Update: the error of the update not looked at
UpdateIgnoringError(ok) ==
    /\ dbPc = "update"
    /\ Called("update", ok)
    /\ table' = IF ok THEN {IF row.id = dbOp.id THEN UpdatedRow(row, dbOp, dbLocal) ELSE row :
                               row \in table}
                 ELSE table
    /\ dbResult' = Resolved(0)
    /\ dbPc' = "settled"
    /\ UNCHANGED <<storage, dbOp, dbLocal, statusLog, clock, taskUpdates>>
    /\ UNCHANGED otherThanDb

\* await supabase.from(TABLE_NAME).update(updates).eq('id', id): on error
\* throw 'Update failed: ...'
Update(ok) ==
    /\ dbPc = "update"
    /\ Called("update", ok)
    /\ IF ok
       THEN /\ table' = {IF row.id = dbOp.id THEN UpdatedRow(row, dbOp, dbLocal) ELSE row :
                            row \in table}
            /\ dbResult' = Resolved(0)
       ELSE /\ dbResult' = Rejected(<<"Update failed: ", Cause>>)
            /\ UNCHANGED table
    /\ dbPc' = "settled"
    /\ UNCHANGED <<storage, dbOp, dbLocal, statusLog, clock, taskUpdates>>
    /\ UNCHANGED otherThanDb

\* deleteSession up to its first await
deleteSession(id) ==
    /\ dbPc \in {"idle", "settled"}
    /\ clock' = clock + 1
    /\ dbOp' = [NoOp EXCEPT !.name = "deleteSession", !.id = id]
    /\ dbLocal' = NoLocal
    /\ dbResult' = Unsettled
    /\ dbCalls' = <<>>
    /\ statusLog' = <<>>
    /\ dbPc' = "fetch"
    /\ UNCHANGED <<storage, table, taskUpdates>>

\* select('media_path, cover_path').eq('id', id).single(): an error when
\* the call fails or there is no such row; then throw 'Session not found'
Fetch(ok) ==
    /\ dbPc = "fetch"
    /\ ok => \E row \in table : row.id = dbOp.id
    /\ Called("fetch", ok)
    /\ IF ok
       THEN /\ \E row \in table :
                 /\ row.id = dbOp.id
                 /\ dbLocal' = [dbLocal EXCEPT !.filesToRemove =
                                    {row.media_path} \cup
                                    (IF row.cover_path # NoPath THEN {row.cover_path} ELSE {})]
            /\ dbPc' = "remove"
            /\ UNCHANGED dbResult
       ELSE /\ dbResult' = Rejected(<<"Session not found">>)
            /\ dbPc' = "settled"
            /\ UNCHANGED dbLocal
    /\ UNCHANGED <<storage, table, dbOp, statusLog, clock, taskUpdates>>
    /\ UNCHANGED otherThanDb

\* supabase.storage.from(BUCKET_NAME).remove(filesToRemove): a failure is
\* warned about and the row is deleted all the same
Remove(ok) ==
    /\ dbPc = "remove"
    /\ Called("remove", ok)
    /\ storage' = IF ok THEN storage \ dbLocal.filesToRemove ELSE storage
    /\ dbPc' = "delete"
    /\ UNCHANGED <<table, dbOp, dbLocal, dbResult, statusLog, clock, taskUpdates>>
    /\ UNCHANGED otherThanDb

\* supabase.from(TABLE_NAME).delete().eq('id', id): on error throw
\* 'Failed to delete session: ...'
Delete(ok) ==
    /\ dbPc = "delete"
    /\ Called("delete", ok)
    /\ IF ok
       THEN /\ table' = {row \in table : row.id # dbOp.id}
            /\ dbResult' = Resolved(0)
       ELSE /\ dbResult' = Rejected(<<"Failed to delete session: ", Cause>>)
            /\ UNCHANGED table
    /\ dbPc' = "settled"
    /\ UNCHANGED <<storage, dbOp, dbLocal, statusLog, clock, taskUpdates>>
    /\ UNCHANGED otherThanDb

\* the session stored before, with or without a cover
StoredRow(withCover) ==
    [id |-> 0, title |-> "old", media_path |-> MediaPathAt(0),
     cover_path |-> IF withCover THEN CoverPathAt(0) ELSE NoPath,
     subtitles |-> ParsedSegments(1)]

InitDb ==
    /\ \/ table = {} /\ storage = {}
       \/ \E withCover \in BOOLEAN :
             /\ table = {StoredRow(withCover)}
             /\ storage = {MediaPathAt(0)} \cup (IF withCover THEN {CoverPathAt(0)} ELSE {})
    /\ dbOp = NoOp /\ dbPc = "idle" /\ dbLocal = NoLocal /\ dbResult = Unsettled
    /\ dbCalls = <<>> /\ statusLog = <<>> /\ clock = 0
    /\ TimeOff /\ ParseOff /\ PlayerOff /\ TranslateOff /\ KaraokeOff /\ SessionOff /\ AppOff

CallSaveSession ==
    /\ clock < MaxOps
    /\ \E coverFile \in BOOLEAN, callback \in {"none", "setLoadingStep"} :
          saveSession("new", ParsedSegments(2), coverFile, callback, <<>>)
    /\ UNCHANGED otherThanDb

CallUpdateSession ==
    /\ clock < MaxOps
    /\ \E id \in 0..clock, hasSubtitles \in BOOLEAN, coverFile \in BOOLEAN :
          updateSession(id, "renamed", hasSubtitles,
                        IF hasSubtitles THEN ParsedSegments(2) ELSE <<>>,
                        coverFile, "setLoadingStep")
    /\ UNCHANGED otherThanDb

CallDeleteSession ==
    /\ clock < MaxOps
    /\ \E id \in 0..clock : deleteSession(id)
    /\ UNCHANGED otherThanDb

NextDb ==
    \/ CallSaveSession
    \/ UploadProgress
    \/ \E ok \in BOOLEAN : MediaUpload(ok)
    \/ \E ok \in BOOLEAN : SaveCoverUpload(ok)
    \/ \E ok \in BOOLEAN : Insert(ok)
    \/ \E ok \in BOOLEAN : CleanupRemove(ok)
    \/ CallUpdateSession
    \/ \E ok \in BOOLEAN : UpdateCoverUpload(ok)
    \/ \E ok \in BOOLEAN : Update(ok)
    \/ CallDeleteSession
    \/ \E ok \in BOOLEAN : Fetch(ok)
    \/ \E ok \in BOOLEAN : Remove(ok)
    \/ \E ok \in BOOLEAN : Delete(ok)

SpecDb == InitDb /\ [][NextDb]_vars

\* ---- db.ts, saveSession with the two uploads in parallel

Finalizing == <<"Finalizing...">>

otherThanParallel == <<timeVars, parseVars, playerVars, translateVars, karaokeVars,
                       sessionLocals, scrollVars, seekVars, modalVars, uploadVars>>

InitParallel ==
    /\ \/ table = {} /\ storage = {}
       \/ \E withCover \in BOOLEAN :
             /\ table = {StoredRow(withCover)}
             /\ storage = {MediaPathAt(0)} \cup (IF withCover THEN {CoverPathAt(0)} ELSE {})
    /\ dbOp = NoOp /\ dbPc = "idle" /\ dbLocal = NoLocal /\ dbResult = Unsettled
    /\ dbCalls = <<>> /\ statusLog = <<>> /\ clock = 0
    /\ uploadPromises = NoPromises
    /\ TimeOff /\ ParseOff /\ PlayerOff /\ TranslateOff /\ KaraokeOff /\ SessionOff
    /\ ScrollOff /\ SeekOff /\ ModalOff /\ UploadOff

\* saveSession up to its await: coverPath is set and the cover upload
\* started when a cover is given, then the media upload is started; a cover
\* upload of an earlier call is over
saveSessionParallel ==
    /\ clock < MaxOps
    /\ dbPc \in {"idle", "settled"}
    /\ uploadPromises.cover # "pending"
    /\ clock' = clock + 1
    /\ \E coverFile \in BOOLEAN, callback \in {"none", "setLoadingStep"} :
          /\ dbOp' = [NoOp EXCEPT !.name = "saveSession", !.title = "new",
                                  !.hasSubtitles = TRUE, !.subtitles = ParsedSegments(2),
                                  !.coverFile = coverFile, !.onStatusChange = callback]
          /\ dbLocal' = [NoLocal EXCEPT !.mediaPath = MediaPathAt(clock + 1),
                                        !.coverPath = IF coverFile THEN CoverPathAt(clock + 1)
                                                      ELSE NoPath]
          /\ uploadPromises' = [media |-> "pending",
                                cover |-> IF coverFile THEN "pending" ELSE "resolved"]
          /\ statusLog' = StatusCalls(callback, <<UploadingMedia>>)
    /\ dbPc' = "uploads"
    /\ dbResult' = Unsettled
    /\ dbCalls' = <<>>
    /\ UNCHANGED <<storage, table, taskUpdates>>
    /\ UNCHANGED otherThanParallel

\* await Promise.all([mediaUploadPromise, coverUploadPromise]) with the
\* promises as they are after the step: it throws 'Upload failed: ...' once
\* the media upload has rejected, and goes on to the insert once both have
\* resolved
AfterPromiseAll ==
    IF dbPc # "uploads" THEN UNCHANGED <<dbPc, dbResult, statusLog>>
    ELSE IF uploadPromises'.media = "rejected"
    THEN /\ dbResult' = Rejected(<<"Upload failed: ", Cause>>)
         /\ dbPc' = "settled"
         /\ UNCHANGED statusLog
    ELSE IF uploadPromises'.media = "resolved" /\ uploadPromises'.cover = "resolved"
    THEN /\ statusLog' = statusLog \o StatusCalls(dbOp.onStatusChange, <<Finalizing>>)
         /\ dbPc' = "insert"
         /\ UNCHANGED dbResult
    ELSE UNCHANGED <<dbPc, dbResult, statusLog>>

\* xhr.upload.onprogress of the media upload: onUploadProgress(percent, ...)
ParallelUploadProgress ==
    /\ uploadPromises.media = "pending"
    /\ dbLocal.progressEvents < MaxProgressEvents
    /\ dbLocal' = [dbLocal EXCEPT !.progressEvents = @ + 1]
    /\ UNCHANGED <<storage, table, dbOp, dbPc, dbResult, dbCalls, statusLog, clock,
                   taskUpdates, uploadPromises>>
    /\ UNCHANGED otherThanParallel

\* uploadFileWithProgress settles: resolve() on a 2xx status, reject otherwise
ParallelMediaUpload(ok) ==
    /\ uploadPromises.media = "pending"
    /\ Called("mediaUpload", ok)
    /\ storage' = IF ok THEN storage \cup {dbLocal.mediaPath} ELSE storage
    /\ uploadPromises' = [uploadPromises EXCEPT
                             !.media = IF ok THEN "resolved" ELSE "rejected"]
    /\ AfterPromiseAll
    /\ UNCHANGED <<table, dbOp, dbLocal, clock, taskUpdates>>
    /\ UNCHANGED otherThanParallel

\* supabase.storage...upload(coverFileName, coverFile).then(({ error }) =>
\* { if (error) console.warn(...) }): the promise resolves either way, and
\* coverPath stays as set
ParallelCoverUpload(ok) ==
    /\ uploadPromises.cover = "pending"
    /\ Called("coverUpload", ok)
    /\ storage' = IF ok THEN storage \cup {dbLocal.coverPath} ELSE storage
    /\ uploadPromises' = [uploadPromises EXCEPT !.cover = "resolved"]
    /\ AfterPromiseAll
    /\ UNCHANGED <<table, dbOp, dbLocal, clock, taskUpdates>>
    /\ UNCHANGED otherThanParallel

NextParallel ==
    \/ saveSessionParallel
    \/ ParallelUploadProgress
    \/ \E ok \in BOOLEAN : ParallelMediaUpload(ok)
    \/ \E ok \in BOOLEAN : ParallelCoverUpload(ok)
    \/ \E ok \in BOOLEAN : Insert(ok)
    \/ \E ok \in BOOLEAN : CleanupRemove(ok)

SpecParallel == InitParallel /\ [][NextParallel]_vars

\* ---- translateSubtitles(subtitles, onProgress)

InitTranslate ==
    /\ \E K \in 1..MaxSegments : subtitles = ParsedSegments(K)
    /\ result = <<>>
    /\ i = 0
    /\ pc = "loop"
    /\ inFlight = 0
    /\ settled = "pending"
    /\ processedBatch = <<>>
    /\ progress = <<>>
    /\ calls = <<>>
    /\ TimeOff /\ ParseOff /\ PlayerOff /\ KaraokeOff /\ SessionOff /\ DbOff /\ AppOff

\* i < subtitles.length: slice the batch and call processBatch, which
\* issues its generateContent call
LoopIteration ==
    /\ pc = "loop"
    /\ i < Len(subtitles)
    /\ calls' = Append(calls, [input |-> inputForAi(CurrentBatch), outcome |-> Pending])
    /\ inFlight' = inFlight + 1
    /\ pc' = AfterCall
    /\ UNCHANGED <<subtitles, result, i, settled, processedBatch, progress>>
    /\ UNCHANGED <<timeVars, parseVars, playerVars, karaokeVars, dbVars, appVars>>
    /\ UNCHANGED sessionVars

\* the call settles and processBatch settles in its turn
Settle(outcome) ==
    /\ pc = "await"
    /\ inFlight > 0
    /\ settled = "pending"
    /\ inFlight' = inFlight - 1
    /\ settled' = IF processBatchRejects(outcome) THEN "rejected" ELSE "resolved"
    /\ processedBatch' = processBatch(CurrentBatch, outcome)
    /\ calls' = [calls EXCEPT ![Len(calls)].outcome = outcome]
    /\ UNCHANGED <<subtitles, result, i, pc, progress>>
    /\ UNCHANGED <<timeVars, parseVars, playerVars, karaokeVars, dbVars, appVars>>
    /\ UNCHANGED sessionVars

CallThrows == Settle(Outcome("throws", <<>>))

ResponseUnparseable == Settle(Outcome("unparseable", <<>>))

ResponseNotArray == Settle(Outcome("notArray", <<>>))

ResponseArray ==
    /\ pc = "await"
    /\ \E items \in ArrayResponses(inputForAi(CurrentBatch)) : Settle(Outcome("array", items))

\* after the await: result.push(...processedBatch), onProgress(...),
\* i += BATCH_SIZE; a rejected processBatch would reject translateSubtitles
Resume ==
    /\ pc = "await"
    /\ settled # "pending"
    /\ IF settled = "rejected"
       THEN /\ pc' = "rejected"
            /\ UNCHANGED <<result, progress, i>>
       ELSE /\ result' = result \o processedBatch
            /\ progress' = Append(progress, [completed |-> CompletedCount(i, Len(subtitles)),
                                             total |-> Len(subtitles)])
            /\ i' = i + BATCH_SIZE
            /\ pc' = "loop"
    /\ taskUpdates' = IF settled = "rejected" THEN taskUpdates
                      ELSE taskUpdates \o ProgressUpdates(stage, CompletedCount(i, Len(subtitles)),
                                                            Len(subtitles))
    /\ settled' = "pending"
    /\ processedBatch' = <<>>
    /\ UNCHANGED <<subtitles, inFlight, calls>>
    /\ UNCHANGED <<timeVars, parseVars, playerVars, karaokeVars, dbVars, appVars>>
    /\ UNCHANGED sessionLocals

\* i >= subtitles.length: return result
LoopExit ==
    /\ pc = "loop"
    /\ i >= Len(subtitles)
    /\ pc' = "returned"
    /\ UNCHANGED <<subtitles, result, i, inFlight, settled, processedBatch, progress, calls>>
    /\ UNCHANGED <<timeVars, parseVars, playerVars, karaokeVars, dbVars, appVars>>
    /\ UNCHANGED sessionVars

NextTranslate ==
    \/ LoopIteration
    \/ CallThrows
    \/ ResponseUnparseable
    \/ ResponseNotArray
    \/ ResponseArray
    \/ Resume
    \/ LoopExit

SpecTranslate == InitTranslate /\ [][NextTranslate]_vars

\* ---- processAndUploadSession(options, onTaskUpdate, onComplete, onError)

Begin(name) == [stage |-> name, event |-> "begin"]

End(name) == [stage |-> name, event |-> "end"]

Failure(name) == [stage |-> name, event |-> "failed"]

InitSession ==
    /\ options \in [autoTranslate : BOOLEAN, coverFile : BOOLEAN]
    /\ stage = "ready" /\ sessionSubtitles = <<>> /\ finalCover = "none"
    /\ taskUpdates = <<>> /\ completions = <<>> /\ errorsReported = <<>> /\ stages = <<>>
    /\ fileName \in FileNames
    /\ cues \in SessionFiles
    /\ data = Render(cues, LF)
    /\ segments = <<>>
    /\ parseState = "ready"
    /\ storage = {} /\ table = {} /\ dbOp = NoOp /\ dbPc = "idle" /\ dbLocal = NoLocal
    /\ dbResult = Unsettled /\ dbCalls = <<>> /\ statusLog = <<>> /\ clock = 0
    /\ TimeOff /\ PlayerOff /\ TranslateOff /\ KaraokeOff /\ AppOff

\* the call, up to the await of parseSubtitleFile
processAndUploadSession ==
    /\ stage = "ready"
    /\ taskUpdates' = <<[status |-> <<"Parsing subtitles...">>, progress |-> 5]>>
    /\ stage' = "parse"
    /\ stages' = <<Begin("parse")>>
    /\ UNCHANGED <<options, sessionSubtitles, finalCover, completions, errorsReported>>
    /\ UNCHANGED <<timeVars, parseVars, playerVars, translateVars, karaokeVars, dbVars, appVars>>

\* 4. Upload: onTaskUpdate 'Starting upload...' and the call of saveSession
ToPersist(subs, cover, before, events) ==
    /\ sessionSubtitles' = subs
    /\ finalCover' = cover
    /\ stage' = "persist"
    /\ stages' = stages \o events \o <<Begin("persist")>>
    /\ saveSession("title", subs, cover # "none", "onTaskUpdate",
                   before \o <<[status |-> <<"Starting upload...">>, progress |-> 50]>>)

\* 3. let finalCover = coverFile; without one the cover extraction is awaited
ToCoverOrPersist(subs, before, events) ==
    IF ~options.coverFile
    THEN /\ sessionSubtitles' = subs
         /\ finalCover' = "none"
         /\ stage' = "cover"
         /\ stages' = stages \o events \o <<Begin("cover")>>
         /\ taskUpdates' = taskUpdates \o before
                           \o <<[status |-> <<"Extracting metadata...">>, progress |-> 45]>>
         /\ UNCHANGED dbVars
    ELSE ToPersist(subs, "supplied", before, events)

\* 2. if (autoTranslate): onTaskUpdate 'AI Translating...' and the call of
\* translateSubtitles
ToTranslateOrOn(subs) ==
    IF options.autoTranslate
    THEN /\ taskUpdates' = Append(taskUpdates,
                                  [status |-> <<"AI Translating...">>, progress |-> 10])
         /\ stage' = "translate"
         /\ stages' = stages \o <<End("parse"), Begin("translate")>>
         /\ sessionSubtitles' = subs
         /\ subtitles' = subs /\ result' = <<>> /\ i' = 0 /\ pc' = "loop"
         /\ UNCHANGED <<inFlight, settled, processedBatch, progress, calls>>
         /\ UNCHANGED <<finalCover, dbVars>>
    ELSE /\ ToCoverOrPersist(subs, <<>>, <<End("parse")>>)
         /\ UNCHANGED translateVars

\* a mutant of ParseSettles: an empty result is not looked at
ParseSettlesWithoutEmptyCheck ==
    /\ stage = "parse"
    /\ \E readable \in BOOLEAN :
          IF ~readable
          THEN /\ errorsReported' = Append(errorsReported, <<Cause>>)
               /\ stage' = "done"
               /\ stages' = Append(stages, Failure("parse"))
               /\ UNCHANGED <<segments, parseState, sessionSubtitles, finalCover, taskUpdates>>
               /\ UNCHANGED <<translateVars, dbVars>>
          ELSE /\ segments' = parseSubtitleFile(fileName, data)
               /\ parseState' = "parsed"
               /\ ToTranslateOrOn(segments')
               /\ UNCHANGED errorsReported
    /\ UNCHANGED <<options, completions, fileName, data, cues>>
    /\ UNCHANGED <<timeVars, playerVars, karaokeVars, appVars>>

\* parseSubtitleFile settles: file.text() rejects, or the text is parsed;
\* if (subtitles.length === 0) throw new Error('No subtitles found in file'),
\* caught at the end: onError(error.message || 'Processing failed')
ParseSettles ==
    /\ stage = "parse"
    /\ \E readable \in BOOLEAN :
          IF ~readable
          THEN /\ errorsReported' = Append(errorsReported, <<Cause>>)
               /\ stage' = "done"
               /\ stages' = Append(stages, Failure("parse"))
               /\ UNCHANGED <<segments, parseState, sessionSubtitles, finalCover, taskUpdates>>
               /\ UNCHANGED <<translateVars, dbVars>>
          ELSE /\ segments' = parseSubtitleFile(fileName, data)
               /\ parseState' = "parsed"
               /\ IF Len(segments') = 0
                  THEN /\ errorsReported' =
                            Append(errorsReported, <<"No subtitles found in file">>)
                       /\ stage' = "done"
                       /\ stages' = Append(stages, Failure("parse"))
                       /\ sessionSubtitles' = segments'
                       /\ UNCHANGED <<finalCover, taskUpdates>>
                       /\ UNCHANGED <<translateVars, dbVars>>
                  ELSE /\ ToTranslateOrOn(segments')
                       /\ UNCHANGED errorsReported
    /\ UNCHANGED <<options, completions, fileName, data, cues>>
    /\ UNCHANGED <<timeVars, playerVars, karaokeVars, appVars>>

\* a mutant of TranslateReturns: the sequence returned is not assigned
TranslateReturnsDiscardingResult ==
    /\ stage = "translate"
    /\ pc = "returned"
    /\ ToCoverOrPersist(sessionSubtitles, <<>>, <<End("translate")>>)
    /\ UNCHANGED <<options, completions, errorsReported>>
    /\ UNCHANGED <<timeVars, parseVars, playerVars, translateVars, karaokeVars, appVars>>

\* subtitles = await translateSubtitles(...): it has returned
TranslateReturns ==
    /\ stage = "translate"
    /\ pc = "returned"
    /\ ToCoverOrPersist(result, <<>>, <<End("translate")>>)
    /\ UNCHANGED <<options, completions, errorsReported>>
    /\ UNCHANGED <<timeVars, parseVars, playerVars, translateVars, karaokeVars, appVars>>

\* await extractCoverFromMedia(mediaFile) settles: a file, null, or a
\* rejection, which is caught and warned about
CoverSettles ==
    /\ stage = "cover"
    /\ \E outcome \in {"file", "null", "rejects"} :
          ToPersist(sessionSubtitles,
                    IF outcome = "file" THEN "extracted" ELSE "none",
                    <<>>,
                    <<IF outcome = "rejects" THEN Failure("cover") ELSE End("cover")>>)
    /\ UNCHANGED <<options, completions, errorsReported>>
    /\ UNCHANGED <<timeVars, parseVars, playerVars, translateVars, karaokeVars, appVars>>

\* a mutant of SaveSettles: the completion is announced whatever
\* saveSession settled to
SaveSettlesCompletingAnyway ==
    /\ stage = "persist"
    /\ dbPc = "settled"
    /\ taskUpdates' = Append(taskUpdates, [progress |-> 100, status |-> <<"Complete">>])
    /\ completions' = Append(completions, dbResult.value)
    /\ stages' = Append(stages, End("persist"))
    /\ UNCHANGED errorsReported
    /\ stage' = "done"
    /\ UNCHANGED <<options, sessionSubtitles, finalCover>>
    /\ UNCHANGED <<timeVars, parseVars, playerVars, translateVars, karaokeVars, dbVars, appVars>>

\* await saveSession(...) settles: onTaskUpdate 'Complete' and
\* onComplete(sessionId), or the catch: onError(error.message || ...)
SaveSettles ==
    /\ stage = "persist"
    /\ dbPc = "settled"
    /\ IF dbResult.state = "resolved"
       THEN /\ taskUpdates' = Append(taskUpdates,
                                     [progress |-> 100, status |-> <<"Complete">>])
            /\ completions' = Append(completions, dbResult.value)
            /\ stages' = Append(stages, End("persist"))
            /\ UNCHANGED errorsReported
       ELSE /\ errorsReported' = Append(errorsReported, dbResult.message)
            /\ stages' = Append(stages, Failure("persist"))
            /\ UNCHANGED <<taskUpdates, completions>>
    /\ stage' = "done"
    /\ UNCHANGED <<options, sessionSubtitles, finalCover>>
    /\ UNCHANGED <<timeVars, parseVars, playerVars, translateVars, karaokeVars, dbVars, appVars>>

NextSession ==
    \/ processAndUploadSession
    \/ ParseSettles
    \/ LoopIteration
    \/ CallThrows
    \/ ResponseUnparseable
    \/ ResponseNotArray
    \/ ResponseArray
    \/ Resume
    \/ LoopExit
    \/ TranslateReturns
    \/ CoverSettles
    \/ UploadProgress
    \/ \E ok \in BOOLEAN : MediaUpload(ok)
    \/ \E ok \in BOOLEAN : SaveCoverUpload(ok)
    \/ \E ok \in BOOLEAN : Insert(ok)
    \/ \E ok \in BOOLEAN : CleanupRemove(ok)
    \/ SaveSettles

SpecSession == InitSession /\ [][NextSession]_vars

(***************************************************************************)
(* Properties of the timestamp codec and of the parser                    *)
(***************************************************************************)

ColonCount(s) == Cardinality({k \in 1..Len(s) : s[k] = ":"})

\* C9: timeToSeconds returns H*3600 + MM*60 + SS + mmm/1000 for a text
\* H:MM:SS<sep>mmm, MM*60 + SS + mmm/1000 for a text MM:SS<sep>mmm, with
\* <sep> ',' or '.', and 0 for every text whose number of colon-separated
\* fields is neither 2 nor 3; "01:02:03,004" gives 3723.004, "02:03,004"
\* gives 123.004 and "not-a-time" gives 0.
C9_TimestampCodec ==
    timeState = "done" =>
        /\ \A h \in HourValues, m \in MinuteValues, sec \in SecondValues,
              ms \in MilliValues, sep \in Separators :
              /\ timeString = Stamp3(h, m, sec, ms, sep) =>
                    timeResult = Num(h * 3600000 + m * 60000 + sec * 1000 + ms)
              /\ timeString = Stamp2(m, sec, ms, sep) =>
                    timeResult = Num(m * 60000 + sec * 1000 + ms)
        /\ ColonCount(timeString) \notin {1, 2} => timeResult = Num(0)
        /\ timeString = Stamp3(1, 2, 3, 4, ",") => timeResult = Num(3723004)
        /\ timeString = Stamp2(2, 3, 4, ",") => timeResult = Num(123004)
        /\ timeString = NotATime => timeResult = Num(0)

C9_Witness ==
    /\ timeState = "done"
    /\ timeString = Stamp3(1, 2, 3, 4, ",")
    /\ timeResult = Num(3723004)

\* the lines of a block that hold something other than whitespace
NonBlank(block) == SelectSeq(block, LAMBDA line : \E k \in 1..Len(line) : line[k] \notin Whitespace)

\* start --> end: text, the separator " --> ", text
IsTimeLine(line) ==
    \E k \in 2..(Len(line) - Len(ArrowSep)) : SubSeq(line, k, k + Len(ArrowSep) - 1) = ArrowSep

IsVttName == EndsWith(fileName, DotVtt)

\* a cue block: its time line is its first non-empty line, or its second
\* one after a line without an arrow; for SRT it has two non-empty lines
\* at least; for VTT it is not the WEBVTT header
IsCueBlock(block) ==
    LET ls == NonBlank(block)
    IN  /\ Len(ls) >= 1
        /\ \/ IsTimeLine(ls[1])
           \/ Len(ls) >= 2 /\ ~Includes(ls[1], Arrow) /\ IsTimeLine(ls[2])
        /\ IsVttName => ~StartsWith(ls[1], Webvtt)
        /\ ~IsVttName => Len(ls) >= 2

\* a block the parser is to skip: no arrow on its first two non-empty
\* lines, or an arrow on a line that is not start --> end
IsMalformedBlock(block) ==
    LET ls == NonBlank(block)
    IN  \/ \A k \in 1..Len(ls) : k <= 2 => ~Includes(ls[k], Arrow)
        \/ \E k \in 1..Len(ls) :
              /\ k <= 2
              /\ Includes(ls[k], Arrow)
              /\ \A j \in 1..(k - 1) : ~Includes(ls[j], Arrow)
              /\ ~IsTimeLine(ls[k])

\* what the parser returns for a file holding this block only
Alone(block) == parseSubtitleFile(fileName, Render(<<block>>, LF))

SameCue(a, b) == a.startTime = b.startTime /\ a.endTime = b.endTime /\ a.text = b.text

\* C1: a text made of N cue blocks separated by blank lines parses, as SRT
\* and as VTT, to exactly N segments in block order with ids 1, 2, ..., N,
\* whatever index numbers the blocks carry.
C1_OneSegmentPerCue ==
    (parseState = "parsed" /\ \A k \in 1..Len(cues) : IsCueBlock(cues[k])) =>
        /\ Len(segments) = Len(cues)
        /\ \A k \in 1..Len(cues) :
              /\ segments[k].id = k
              /\ SameCue(segments[k], Alone(cues[k])[1])

C1_Witness ==
    /\ parseState = "parsed"
    /\ Len(cues) = MaxBlocks
    /\ \A k \in 1..Len(cues) : IsCueBlock(cues[k])
    /\ cues[1] = CueBare /\ cues[2] = CueIndexed /\ cues[Len(cues)] = CueBadStamps
    /\ Len(segments) = MaxBlocks
    /\ segments[1].id = 1

RECURSIVE Concat(_)
Concat(seqs) == IF seqs = <<>> THEN <<>> ELSE Head(seqs) \o Concat(Tail(seqs))

\* C8: a malformed block yields no segment and does not stop the parse:
\* the segments are those of the other blocks, each with the start, end
\* and text it has when parsed alone, in order, with ids 1..M and no gap.
C8_MalformedBlockSkipped ==
    parseState = "parsed" =>
        LET alone == [k \in 1..Len(cues) |-> Alone(cues[k])]
            kept  == Concat(alone)
        IN  /\ \A k \in 1..Len(cues) : IsMalformedBlock(cues[k]) => alone[k] = <<>>
            /\ Len(segments) = Len(kept)
            /\ \A j \in 1..Len(segments) :
                  segments[j].id = j /\ SameCue(segments[j], kept[j])

C8_Witness ==
    /\ parseState = "parsed"
    /\ Len(cues) = 3
    /\ cues[1] = CueBare /\ cues[2] \in {BlockNoArrow, BlockTightArrow, BlockNoStart}
    /\ cues[3] = CueIndexed
    /\ Len(segments) = 2
    /\ segments[2].id = 2
    /\ segments[2].startTime = Num(3723004)

IsSeconds(x) == ~x.nan /\ x.ms >= 0

\* C10: every segment the parser produces has a non-negative number as
\* startTime and as endTime; a timestamp that is not a well-formed
\* timecode counts as 0, never as NaN or as a negative time.
C10_TimesNonNegative ==
    parseState = "parsed" =>
        \A k \in 1..Len(segments) :
            IsSeconds(segments[k].startTime) /\ IsSeconds(segments[k].endTime)

\* C21: in the VTT parser a block whose first non-empty line starts with
\* WEBVTT gives no segment, and the endTime of a cue depends only on the
\* first whitespace-delimited token after " --> ": the cue with cue
\* settings after its end time gives the startTime, endTime and text of the
\* same cue without them.
C21_VttSettingsIgnored ==
    parseState = "parsed" =>
        /\ Alone(cues[1]) = <<>>
        /\ Len(segments) = 2
        /\ SameCue(segments[1], segments[2])

\* the same, for the cues whose settings follow the end time after spaces
SpaceDelimitedSettingsIgnored ==
    (parseState = "parsed" /\ \A k \in 1..Len(cues[2]) : ~Includes(cues[2][k], <<"\t">>)) =>
        /\ Alone(cues[1]) = <<>>
        /\ Len(segments) = 2
        /\ SameCue(segments[1], segments[2])

\* the last four characters of the name are ".vtt"
NameEndsInDotVtt(name) ==
    /\ Len(name) >= 4
    /\ name[Len(name) - 3] = "." /\ name[Len(name) - 2] = "v"
    /\ name[Len(name) - 1] = "t" /\ name[Len(name)] = "t"

\* C23: the format depends on the file name only: parseSubtitleFile applies
\* the VTT algorithm exactly when the name ends with ".vtt" and the SRT
\* algorithm for every other name, whatever the content; the same content
\* under a ".vtt" name and under another name goes to different algorithms.
C23_FormatByNameOnly ==
    parseState = "parsed" =>
        /\ segments = (IF NameEndsInDotVtt(fileName) THEN parseVTT(data) ELSE parseSRT(data))
        /\ \A other \in SubtitleNames :
              parseSubtitleFile(other, data) =
                  (IF NameEndsInDotVtt(other) THEN parseVTT(data) ELSE parseSRT(data))

\* a file named news.vtt whose segments are not those the same content gives
\* under the name news.srt
C23_Witness ==
    /\ parseState = "parsed"
    /\ fileName = NameVtt
    /\ StartsWith(data, Webvtt)
    /\ segments # parseSubtitleFile(NameSrt, data)
    /\ segments = parseSubtitleFile(DotVtt, data)

\* the character at offset p of the text is inside a `<...>` span: a '<'
\* at or before it, a '>' at or after it, and no '>' from that '<' up to it
InSpan(text, p) ==
    \E k \in 1..p, j \in p..Len(text) :
        /\ text[k] = "<" /\ text[j] = ">"
        /\ \A g \in k..(p - 1) : text[g] # ">"

\* the characters outside the spans, in order
OutsideSpans(text) ==
    LET kept == {p \in 1..Len(text) : ~InSpan(text, p)}
    IN  [n \in 1..Cardinality(kept) |->
            text[CHOOSE p \in kept : Cardinality({q \in kept : q <= p}) = n]]

\* C20: the text of a segment is the lines after the time line joined
\* with "\n", every `<...>` span removed: it has no '<' followed later by a
\* '>', the characters outside the spans are kept as they were and in
\* order ("Hello <b>world</b>" gives "Hello world"), and stripping the
\* parsed text again changes nothing.
C20_TagsStripped ==
    parseState = "parsed" =>
        LET joined == Join(Drop(cues[1], 1), LF)
            text   == segments[1].text
        IN  /\ Len(segments) = 1
            /\ text = OutsideSpans(joined)
            /\ \A k \in 1..Len(text) :
                  text[k] = "<" => \A j \in (k + 1)..Len(text) : text[j] # ">"
            /\ StripTags(text) = text
            /\ Drop(cues[1], 1) = <<LineHello>> =>
                  text = <<"H", "e", "l", "l", "o", " ", "w", "o", "r", "l", "d">>

C20_Witness ==
    /\ parseState = "parsed"
    /\ Len(segments) = 1
    /\ Len(cues[1]) = 3
    /\ cues[1][2] = LineHello
    /\ cues[1][3] = <<"e", "<", "i">>
    /\ segments[1].text = <<"H", "e", "l", "l", "o", " ", "w", "o", "r", "l", "d", LF[1], "e", "<", "i">>

(***************************************************************************)
(* Properties of the active-segment lookup                                 *)
(***************************************************************************)

\* startTime <= time < endTime, all three being numbers
Covers(s, time) ==
    /\ ~s.startTime.nan /\ ~s.endTime.nan /\ ~time.nan
    /\ s.startTime.ms <= time.ms
    /\ time.ms < s.endTime.ms

\* C2: the segment at index k is the active one exactly when
\* startTime <= currentTime < endTime holds for it (and for no segment
\* before it); for adjacent segments [a,b) and [b,c) the lookup at b gives
\* the second and never the first, at a <= t < b the first, and at c, as
\* at any time no segment covers, -1.
C2_HalfOpenActivation ==
    /\ \A k \in 1..Len(listSubtitles) :
          activeIndex = k - 1 <=>
              /\ Covers(listSubtitles[k], currentTime)
              /\ \A j \in 1..(k - 1) : ~Covers(listSubtitles[j], currentTime)
    /\ activeIndex = -1 <=> \A k \in 1..Len(listSubtitles) : ~Covers(listSubtitles[k], currentTime)
    /\ \A k \in 1..(Len(listSubtitles) - 1) :
          LET first  == listSubtitles[k]
              second == listSubtitles[k + 1]
              alone  == \A j \in 1..(k - 1) : ~Covers(listSubtitles[j], currentTime)
          IN  (/\ first.endTime = second.startTime
               /\ Lt(first.startTime, first.endTime)
               /\ Lt(second.startTime, second.endTime)) =>
                  /\ currentTime = first.endTime =>
                        activeIndex # k - 1 /\ (alone => activeIndex = k)
                  /\ (Geq(currentTime, first.startTime) /\ Lt(currentTime, first.endTime)
                      /\ alone) => activeIndex = k - 1
                  /\ currentTime = second.endTime => activeIndex \notin {k - 1, k}

C2_Witness ==
    /\ Len(listSubtitles) = 2
    /\ listSubtitles[1].startTime = Num(0) /\ listSubtitles[1].endTime = Num(2000)
    /\ listSubtitles[2].startTime = Num(2000) /\ listSubtitles[2].endTime = Num(4000)
    /\ currentTime = Num(2000)
    /\ activeIndex = 1

\* the positions of the segments that contain the current time
Covering == {k \in 1..Len(listSubtitles) : Covers(listSubtitles[k], currentTime)}

\* the rows rendered as the active one
ActiveRows == {k \in 1..Len(rows) : rows[k].highlighted \/ rows[k].karaoke}

\* C13: when several segments contain the current time (overlapping or
\* unsorted input) the lookup gives the one with the lowest index, and at
\* every time at most one row is rendered as active (highlighted, its first
\* line a KaraokeText): the row of that segment and no other.
C13_FirstMatchSingleActive ==
    /\ Covering # {} =>
          /\ activeIndex + 1 \in Covering
          /\ \A j \in Covering : activeIndex + 1 <= j
    /\ Len(rows) = Len(listSubtitles)
    /\ Cardinality(ActiveRows) <= 1
    /\ \A k \in 1..Len(rows) :
          /\ rows[k].highlighted <=> rows[k].karaoke
          /\ rows[k].highlighted <=> (Covering # {} /\ \A j \in Covering : k <= j /\ k \in Covering)

C13_Witness ==
    /\ Cardinality(Covering) >= 2
    /\ currentTime = Num(1000)
    /\ listSubtitles[1].startTime = Num(1000)
    /\ listSubtitles[2].startTime = Num(0)
    /\ ActiveRows = {1}

(***************************************************************************)
(* Properties of KaraokeText                                               *)
(***************************************************************************)

\* the offsets of the spaces of the text, and the span of its j-th word:
\* from the offset after the space before it to the offset of the space
\* after it
SpaceOffsets(text) == {k \in 1..Len(text) : text[k] = " "}

WordStart(text, j) ==
    IF j = 1 THEN 0
    ELSE CHOOSE k \in SpaceOffsets(text) :
            Cardinality({q \in SpaceOffsets(text) : q <= k}) = j - 1

WordEnd(text, j) ==
    IF j = Cardinality(SpaceOffsets(text)) + 1 THEN Len(text)
    ELSE (CHOOSE k \in SpaceOffsets(text) :
            Cardinality({q \in SpaceOffsets(text) : q <= k}) = j) - 1

\* Math.min(1, elapsed / duration) is a number from 0 to 1
ProgressDefined(props) ==
    /\ ~props.startTime.nan /\ ~props.endTime.nan /\ ~props.currentTime.nan
    /\ props.endTime.ms > props.startTime.ms

\* C11: with targetChar = floor(len(text) * progress) and the words of
\* the text split on single spaces, the word spanning startChar..endChar is
\* rendered in exactly one state: past when endChar < targetChar, current
\* when startChar <= targetChar <= endChar, future otherwise; targetChar is
\* floor(len * progress) (or one less where the product is rounded); a
\* one-word segment over [0,1] is not past at time 0 and not future at 1.
C11_WordClassification ==
    karaokeState = "rendered" =>
        LET text   == karaoke.text
            target == currentCharField
        IN  /\ Len(wordStates) = Cardinality(SpaceOffsets(text)) + 1
            /\ \A j \in 1..Len(wordStates) :
                  LET past    == ~target.nan /\ WordEnd(text, j) < target.val
                      current == /\ ~target.nan
                                 /\ WordStart(text, j) <= target.val
                                 /\ target.val <= WordEnd(text, j)
                  IN  /\ wordStates[j] \in {"past", "current", "future"}
                      /\ wordStates[j] = "past" <=> past
                      /\ wordStates[j] = "current" <=> current
                      /\ wordStates[j] = "future" <=> (~past /\ ~current)
            /\ ProgressDefined(karaoke) =>
                  LET duration == karaoke.endTime.ms - karaoke.startTime.ms
                      elapsed  == Min(duration,
                                      Max(0, karaoke.currentTime.ms - karaoke.startTime.ms))
                      floor    == (Len(text) * elapsed) \div duration
                  IN  /\ ~target.nan
                      /\ target.val \in {floor, floor - 1}
                      /\ target.val = floor - 1 => (Len(text) * elapsed) % duration = 0
                      /\ elapsed \in {0, duration} => target.val = floor
            /\ (/\ SpaceOffsets(text) = {} /\ text # <<>>
                /\ karaoke.startTime = Num(0) /\ karaoke.endTime = Num(1000)) =>
                  /\ karaoke.currentTime = Num(0) => wordStates[1] # "past"
                  /\ karaoke.currentTime = Num(1000) => wordStates[1] # "future"

C11_Witness ==
    /\ karaokeState = "rendered"
    /\ Len(karaoke.text) = 6
    /\ karaoke.startTime = Num(0) /\ karaoke.endTime = Num(4000)
    /\ karaoke.currentTime = Num(2000)
    /\ currentCharField = Count(3)
    /\ wordStates = <<"past", "current", "future">>

Failed(outcome) == outcome.kind \in {"throws", "unparseable", "notArray"}

Began(name) == \E k \in 1..Len(stages) : stages[k] = Begin(name)

StageFailed(name) == \E k \in 1..Len(stages) : stages[k] = Failure(name)

\* the place of a stage in the pipeline
Rank(name) ==
    CASE name = "parse" -> 1 [] name = "translate" -> 2 [] name = "cover" -> 3
      [] name = "persist" -> 4

\* C15: when parsing yields no segment (an empty file, or a file with no
\* valid cue block) the run ends as a failure of its own: onError is called
\* with 'No subtitles found in file', onComplete is not called, and there
\* is no translation call, no cover extraction, no upload and no insert.
C15_EmptyParseIsFailure ==
    (parseState = "parsed" /\ segments = <<>>) =>
        /\ stage = "done"
        /\ errorsReported = << <<"No subtitles found in file">> >>
        /\ completions = <<>>
        /\ calls = <<>> /\ pc = "off" /\ inFlight = 0
        /\ ~Began("translate") /\ ~Began("cover") /\ ~Began("persist")
        /\ dbPc = "idle" /\ dbCalls = <<>> /\ clock = 0
        /\ storage = {} /\ table = {}

C15_Witness ==
    /\ parseState = "parsed"
    /\ segments = <<>>
    /\ cues = <<BlockNoArrow, BlockHeader>>
    /\ options.autoTranslate /\ ~options.coverFile
    /\ errorsReported = << <<"No subtitles found in file">> >>

\* C16: the stages of a run come in the order parse, translate (only with
\* autoTranslate), cover extraction (only without a supplied cover),
\* persist; each begins only when the one before has ended; the segments
\* handed to saveSession are those translateSubtitles returned when it ran,
\* those parsed otherwise.
C16_LinearPipeline ==
    /\ \A k \in 1..Len(stages) :
          IF k % 2 = 1
          THEN stages[k].event = "begin"
          ELSE stages[k].event \in {"end", "failed"} /\ stages[k].stage = stages[k - 1].stage
    /\ \A j, k \in 1..Len(stages) :
          (j < k /\ stages[j].event = "begin" /\ stages[k].event = "begin") =>
              Rank(stages[j].stage) < Rank(stages[k].stage)
    /\ stages # <<>> => stages[1] = Begin("parse")
    /\ stage \in {"parse", "translate", "cover", "persist"} =>
          stages[Len(stages)] = Begin(stage)
    /\ Began("translate") => options.autoTranslate
    /\ Began("cover") => ~options.coverFile
    /\ Began("persist") =>
          /\ options.autoTranslate <=> Began("translate")
          /\ ~options.coverFile <=> Began("cover")
    /\ pc # "off" =>
          /\ parseState = "parsed" /\ subtitles = segments
          /\ Began("translate")
    /\ pc \in {"loop", "await"} => stage = "translate"
    /\ (stage \in {"cover", "persist"} \/ dbPc # "idle") =>
          /\ parseState = "parsed"
          /\ pc \in {"off", "returned"} /\ inFlight = 0
    /\ dbPc # "idle" =>
          /\ stage \in {"persist", "done"}
          /\ Began("persist")
          /\ dbOp.name = "saveSession"
          /\ dbOp.subtitles = IF Began("translate") THEN result ELSE segments
          /\ dbOp.coverFile <=> finalCover # "none"

C16_Witness ==
    /\ stage = "done"
    /\ Len(stages) = 8
    /\ stages[8] = End("persist")
    /\ completions # <<>>
    /\ dbOp.subtitles = result
    /\ result # segments

\* an update that announces the end: progress 100 or the status 'Complete'
Announces(update) ==
    \/ "progress" \in DOMAIN update /\ update.progress = 100
    \/ "status" \in DOMAIN update /\ update.status = <<"Complete">>

\* C17: a run ends by calling exactly one of onComplete and onError,
\* once; when saveSession rejects, onError gets the message of its error
\* and neither onComplete nor the update to progress 100, 'Complete', is
\* made; a failed translation or cover extraction does not keep the run
\* from the persist stage.
C17_OneOutcomeReported ==
    /\ Len(completions) + Len(errorsReported) <= 1
    /\ stage = "done" <=> Len(completions) + Len(errorsReported) = 1
    /\ (stage = "done" /\ dbResult.state = "rejected") =>
          /\ errorsReported = <<dbResult.message>>
          /\ dbResult.message # <<>>
          /\ completions = <<>>
          /\ \A k \in 1..Len(taskUpdates) : ~Announces(taskUpdates[k])
    /\ (stage = "done" /\ dbResult.state = "resolved") =>
          /\ completions = <<dbResult.value>>
          /\ errorsReported = <<>>
          /\ taskUpdates[Len(taskUpdates)] = [progress |-> 100, status |-> <<"Complete">>]
    /\ errorsReported # <<>> => (StageFailed("parse") \/ StageFailed("persist"))
    /\ (stage = "done" /\ segments # <<>>) => Began("persist") /\ dbPc = "settled"
    /\ (stage = "done"
        /\ (StageFailed("cover") \/ \E k \in 1..Len(calls) : Failed(calls[k].outcome))) =>
          Began("persist")

C17_Witness ==
    /\ stage = "done"
    /\ Len(calls) = 1 /\ calls[1].outcome.kind = "throws"
    /\ StageFailed("cover")
    /\ dbResult.state = "rejected"
    /\ errorsReported = << <<"Database save failed: ", Cause>> >>

\* C26: the progress values a run reports through onTaskUpdate are within
\* 0..100: 5 first, 10..40 with the translation statuses, 50..95 for the
\* upload; they never decrease over the run when the upload percentages do
\* not; and 100 is reported last, only after saveSession has resolved.
C26_ProgressNonDecreasing ==
    LET reported == SelectSeq(taskUpdates, LAMBDA u : "progress" \in DOMAIN u)
        uploads  == SelectSeq(taskUpdates, LAMBDA u : DOMAIN u = {"progress"})
        NonDecreasing(seq) ==
            \A j \in 1..Len(seq) : \A k \in j..Len(seq) : seq[j].progress <= seq[k].progress
    IN  /\ \A k \in 1..Len(reported) : reported[k].progress \in 0..100
        /\ reported # <<>> => reported[1].progress = 5
        /\ \A k \in 1..Len(reported) :
              ("status" \in DOMAIN reported[k]
               /\ reported[k].status[1] \in {"AI Translating...", "AI Translating ("}) =>
                  reported[k].progress \in 10..40
        /\ \A k \in 1..Len(uploads) : uploads[k].progress \in 50..95
        /\ NonDecreasing(uploads) => NonDecreasing(reported)
        /\ \A k \in 1..Len(taskUpdates) :
              ("progress" \in DOMAIN taskUpdates[k] /\ taskUpdates[k].progress = 100) =>
                  /\ k = Len(taskUpdates)
                  /\ dbPc = "settled" /\ dbResult.state = "resolved"

\* a run that translated, reported two upload percentages, the second the
\* greater, and completed
C26_Witness ==
    LET uploads == SelectSeq(taskUpdates, LAMBDA u : DOMAIN u = {"progress"})
    IN  /\ stage = "done"
        /\ \E k \in 1..Len(taskUpdates) :
              "progress" \in DOMAIN taskUpdates[k] /\ taskUpdates[k].progress = 40
        /\ Len(uploads) = 2 /\ uploads[1].progress < uploads[2].progress
        /\ taskUpdates[Len(taskUpdates)] = [progress |-> 100, status |-> <<"Complete">>]

(***************************************************************************)
(* Properties of saveSession, updateSession and deleteSession              *)
(***************************************************************************)

\* the operation made this call and it failed
CallFailed(call) == \E k \in 1..Len(dbCalls) : dbCalls[k].call = call /\ ~dbCalls[k].ok

CallSucceeded(call) == \E k \in 1..Len(dbCalls) : dbCalls[k].call = call /\ dbCalls[k].ok

\* the operation rejected with an error carrying a message
RejectedWithMessage == dbResult.state = "rejected" /\ dbResult.message # <<>>

\* C18 as stated: every failure of a storage or database call made by
\* saveSession, updateSession or deleteSession (media upload, cover upload,
\* record insert, record update, stored-file removal, record delete) makes
\* the operation reject with an error carrying a message.
C18_EveryFailureSurfaced_AsStated ==
    (/\ dbPc = "settled"
     /\ \E call \in {"mediaUpload", "coverUpload", "insert", "update", "remove",
                      "cleanupRemove", "delete"} : CallFailed(call)) =>
        RejectedWithMessage

\* C18, amended: a failure of the media upload or of the insert in
\* saveSession, of the cover upload or of the update in updateSession, of
\* the lookup or of the delete in deleteSession makes the operation reject
\* with the message of that step; a failed cover upload in saveSession and
\* a failed removal of the stored files in deleteSession do not: the
\* operation goes on, and resolves when its remaining calls succeed, the
\* session stored without a cover, the row deleted.
C18_FailuresSurfaced ==
    dbPc = "settled" =>
        LET save   == dbOp.name = "saveSession"
            update == dbOp.name = "updateSession"
            delete == dbOp.name = "deleteSession"
        IN  /\ (save /\ CallFailed("mediaUpload")) =>
                  dbResult = Rejected(<<"Upload failed: ", Cause>>)
            /\ (save /\ CallFailed("insert")) =>
                  dbResult = Rejected(<<"Database save failed: ", Cause>>)
            /\ (update /\ CallFailed("coverUpload")) =>
                  dbResult = Rejected(<<"Cover upload failed: ", Cause>>)
            /\ (update /\ CallFailed("update")) =>
                  dbResult = Rejected(<<"Update failed: ", Cause>>)
            /\ (delete /\ CallFailed("fetch")) =>
                  dbResult = Rejected(<<"Session not found">>)
            /\ (delete /\ CallFailed("delete")) =>
                  dbResult = Rejected(<<"Failed to delete session: ", Cause>>)
            /\ (save /\ CallFailed("coverUpload") /\ CallSucceeded("insert")) =>
                  /\ dbResult = Resolved(clock)
                  /\ \E row \in table : row.id = clock /\ row.cover_path = NoPath
            /\ (delete /\ CallFailed("remove") /\ CallSucceeded("delete")) =>
                  /\ dbResult = Resolved(0)
                  /\ \A row \in table : row.id # dbOp.id
            /\ dbResult.state \in {"resolved", "rejected"}
            /\ dbResult.state = "rejected" =>
                  /\ dbResult.message # <<>>
                  /\ \E k \in 1..Len(dbCalls) : ~dbCalls[k].ok

C18_Witness ==
    /\ dbPc = "settled"
    /\ dbOp.name = "deleteSession"
    /\ dbCalls = << [call |-> "fetch", ok |-> TRUE], [call |-> "remove", ok |-> FALSE],
                    [call |-> "delete", ok |-> FALSE] >>
    /\ dbResult = Rejected(<<"Failed to delete session: ", Cause>>)

\* C19: when saveSession has uploaded the media file and the insert that
\* follows fails, it issues the removal of the uploaded media object before
\* it rejects with 'Database save failed: ...'; after that no row of the
\* table is a session of the upload and, if the removal succeeded, the
\* media object uploaded by the call is not in storage.
C19_InsertFailureCleanup ==
    /\ dbPc = "cleanup" =>
          /\ dbOp.name = "saveSession" /\ CallSucceeded("mediaUpload") /\ CallFailed("insert")
          /\ dbResult.state = "pending"
          /\ dbLocal.mediaPath \in storage
    /\ (dbPc = "settled" /\ dbOp.name = "saveSession" /\ CallFailed("insert")) =>
          /\ CallSucceeded("mediaUpload")
          /\ Len(dbCalls) >= 2
          /\ dbCalls[Len(dbCalls) - 1].call = "insert"
          /\ dbCalls[Len(dbCalls)].call = "cleanupRemove"
          /\ dbResult = Rejected(<<"Database save failed: ", Cause>>)
          /\ \A row \in table : row.media_path # dbLocal.mediaPath /\ row.id # clock
          /\ CallSucceeded("cleanupRemove") => dbLocal.mediaPath \notin storage

C19_Witness ==
    /\ dbPc = "settled"
    /\ dbOp.name = "saveSession"
    /\ dbCalls = << [call |-> "mediaUpload", ok |-> TRUE], [call |-> "coverUpload", ok |-> TRUE],
                    [call |-> "insert", ok |-> FALSE], [call |-> "cleanupRemove", ok |-> TRUE] >>
    /\ dbLocal.mediaPath \notin storage
    /\ dbLocal.coverPath \in storage
    /\ dbResult.state = "rejected"

(***************************************************************************)
(* Properties of translateSubtitles                                        *)
(***************************************************************************)

BatchCount == (Len(subtitles) + BATCH_SIZE - 1) \div BATCH_SIZE

\* the j-th batch of the input, and what result holds in its place
SourceBatch(j) == Slice(subtitles, BATCH_SIZE * (j - 1), BATCH_SIZE * j)

ResultBatch(j) == Slice(result, BATCH_SIZE * (j - 1), BATCH_SIZE * j)

\* C3: whatever the calls come to, the sequence returned has the length
\* of the input and, at each position, the id, startTime and endTime of
\* the input segment there; only text may differ.
C3_SameLengthIdsAndTimes ==
    /\ pc = "returned" => Len(result) = Len(subtitles)
    /\ Len(result) <= Len(subtitles)
    /\ \A k \in 1..Len(result) :
          /\ result[k].id = subtitles[k].id
          /\ result[k].startTime = subtitles[k].startTime
          /\ result[k].endTime = subtitles[k].endTime

C3_Witness ==
    /\ pc = "returned"
    /\ Len(subtitles) = MaxSegments
    /\ \E j \in 1..Len(calls) : calls[j].outcome.kind = "throws"
    /\ \E j \in 1..Len(calls) : calls[j].outcome.kind = "unparseable"
    /\ \E j \in 1..Len(calls) :
          calls[j].outcome.kind = "array" /\ Len(calls[j].outcome.items) = Len(calls[j].input) - 1
    /\ result # subtitles

\* C4: batches go one after the other: never two generateContent calls in
\* flight, and while the call for a batch is in flight every earlier call
\* has settled and the results of all earlier batches are in result.
C4_OneCallAtATime ==
    /\ inFlight <= 1
    /\ inFlight = Cardinality({j \in 1..Len(calls) : calls[j].outcome = Pending})
    /\ inFlight = 1 =>
          /\ calls[Len(calls)].outcome = Pending
          /\ Len(result) = BATCH_SIZE * (Len(calls) - 1)
          /\ Len(progress) = Len(calls) - 1

C4_Witness ==
    /\ inFlight = 1
    /\ Len(calls) = 3
    /\ Failed(calls[1].outcome)
    /\ calls[2].outcome.kind = "array"
    /\ Len(result) = 2 * BATCH_SIZE

\* the calls a segment was submitted in: <<call, position in its input>>
Submissions(n) ==
    {c \in UNION {{<<j, k>> : k \in 1..Len(calls[j].input)} : j \in 1..Len(calls)} :
        calls[c[1]].input[c[2]].id = subtitles[n].id}

\* C14: the K input segments are submitted in consecutive batches of
\* exactly 15, in the original order, only the last batch being allowed to
\* be shorter and none being empty: the input of the j-th call is the slice
\* [15*(j-1), min(15*j, K)) of the input, every segment is submitted in
\* exactly one call, and ceil(K/15) calls are made in all.
C14_ConsecutiveBatches ==
    /\ Len(calls) <= BatchCount
    /\ \A j \in 1..Len(calls) :
          LET lo == BATCH_SIZE * (j - 1)
              hi == IF BATCH_SIZE * j <= Len(subtitles) THEN BATCH_SIZE * j ELSE Len(subtitles)
          IN  /\ Len(calls[j].input) = hi - lo
              /\ hi - lo >= 1
              /\ j < BatchCount => Len(calls[j].input) = BATCH_SIZE
              /\ \A k \in 1..Len(calls[j].input) :
                    calls[j].input[k] = [id   |-> subtitles[lo + k].id,
                                         text |-> subtitles[lo + k].text]
    /\ pc = "returned" =>
          /\ Len(calls) = BatchCount
          /\ \A n \in 1..Len(subtitles) : Cardinality(Submissions(n)) = 1

C14_Witness ==
    /\ pc = "returned"
    /\ Len(subtitles) = 2 * BATCH_SIZE + 1
    /\ Len(calls) = 3
    /\ Len(calls[1].input) = BATCH_SIZE /\ Len(calls[2].input) = BATCH_SIZE
    /\ Len(calls[3].input) = 1
    /\ calls[3].input[1].id = 2 * BATCH_SIZE + 1

\* C5: a batch whose call fails is passed through with its texts as they
\* were, translateSubtitles does not reject, every later batch is still
\* submitted, and every other batch comes out as its own call decides.
C5_BatchFailureIsolated ==
    /\ pc # "rejected"
    /\ \A j \in 1..Len(progress) :
          /\ Failed(calls[j].outcome) => ResultBatch(j) = SourceBatch(j)
          /\ ~Failed(calls[j].outcome) =>
                ResultBatch(j) = processBatch(SourceBatch(j), calls[j].outcome)
    /\ \A j \in 1..Len(calls) : calls[j].input = inputForAi(SourceBatch(j))
    /\ pc = "returned" => Len(calls) = BatchCount

C5_Witness ==
    /\ pc = "returned"
    /\ Len(calls) = 3
    /\ calls[1].outcome.kind = "throws"
    /\ calls[2].outcome.kind = "array" /\ calls[2].outcome.items = FullResponse(calls[2].input)
    /\ calls[3].outcome.kind = "unparseable"
    /\ ResultBatch(1) = SourceBatch(1)
    /\ ResultBatch(2) # SourceBatch(2)

\* the positions of the results carrying this id
Hits(items, id) == {h \in 1..Len(items) : items[h].id = id}

FirstHit(items, id) == items[CHOOSE h \in Hits(items, id) : \A g \in Hits(items, id) : h <= g]

\* C6 as stated: results are matched by id, not by position: a segment
\* whose id occurs in the returned array gets text = originalText + "\n"
\* + the translation of a result with that id, whatever the order of the
\* array; a segment whose id is missing keeps its text, no newline added.
C6_MatchedById_AsStated ==
    \A j \in 1..Len(progress) :
        calls[j].outcome.kind = "array" =>
            \A k \in 1..Len(SourceBatch(j)) :
                LET src   == SourceBatch(j)[k]
                    out   == ResultBatch(j)[k]
                    items == calls[j].outcome.items
                IN  /\ Hits(items, src.id) # {} =>
                          \E h \in Hits(items, src.id) :
                              out.text = src.text \o LF \o items[h].translation
                    /\ Hits(items, src.id) = {} => out.text = src.text

\* C6: results are matched by id, not by position: a segment gets text =
\* originalText + "\n" + translation when the first result carrying its id
\* has a non-empty translation, whatever the order of the array; a segment
\* whose id is missing, or whose result has an empty translation, keeps
\* its text, no newline added.
C6_MatchedById ==
    \A j \in 1..Len(progress) :
        calls[j].outcome.kind = "array" =>
            \A k \in 1..Len(SourceBatch(j)) :
                LET src   == SourceBatch(j)[k]
                    out   == ResultBatch(j)[k]
                    items == calls[j].outcome.items
                IN  IF Hits(items, src.id) # {} /\ FirstHit(items, src.id).translation # <<>>
                    THEN out.text = src.text \o LF \o FirstHit(items, src.id).translation
                    ELSE out.text = src.text

C6_Witness ==
    /\ Len(progress) >= 1
    /\ Len(subtitles) >= 3
    /\ calls[1].outcome.kind = "array"
    /\ calls[1].outcome.items = Without(Reverse(FullResponse(calls[1].input)), 1)
    /\ result[1].text = subtitles[1].text \o LF \o Translation(1)
    /\ result[Len(result)].text = subtitles[Len(result)].text

\* C7: onProgress is called once after each batch, failed or not, with
\* (completed, K), completed being the number of segments attempted so
\* far; the values of completed never decrease, never exceed K, and K is
\* reported exactly once, in the final call.
C7_ProgressReports ==
    LET K == Len(subtitles)
    IN  /\ pc \in {"loop", "returned"} => Len(progress) = Len(calls)
        /\ pc = "await" => Len(progress) = Len(calls) - 1
        /\ \A j \in 1..Len(progress) :
              /\ progress[j].total = K
              /\ progress[j].completed = Len(SourceBatch(j)) + BATCH_SIZE * (j - 1)
              /\ progress[j].completed <= K
              /\ j > 1 => progress[j - 1].completed <= progress[j].completed
              /\ j < Len(progress) => progress[j].completed # K
        /\ Len(progress) >= 1 => progress[Len(progress)].completed = Len(result)
        /\ pc = "returned" =>
              /\ Cardinality({j \in 1..Len(progress) : progress[j].completed = K}) = 1
              /\ progress[Len(progress)].completed = K

C7_Witness ==
    /\ pc = "returned"
    /\ Len(subtitles) = 2 * BATCH_SIZE + 1
    /\ Len(progress) = 3
    /\ progress[3] = [completed |-> 2 * BATCH_SIZE + 1, total |-> 2 * BATCH_SIZE + 1]
    /\ Failed(calls[2].outcome)

(***************************************************************************)
(* Properties of the list in the page                                      *)
(***************************************************************************)

\* C22: scrollIntoView is never called while less than 2 seconds have passed
\* since the latest scroll event of the list; a scroll event cancels the
\* pending timeout and starts the 2 seconds again, so that the one timeout
\* pending is that of the latest scroll event, due 2 seconds after it; and
\* isUserScrolling is cleared only by the timeout of the latest scroll event.
C22_AutoScrollYieldsToUser ==
    /\ [](/\ lastAutoScroll.row # -1 =>
                (lastAutoScroll.since = -1 \/ lastAutoScroll.since >= RESUME_DELAY)
          /\ \A t \in timers :
                /\ t.id = scrollTimeout
                /\ t.left = Max(0, RESUME_DELAY - sinceScroll))
    /\ [][(isUserScrolling /\ ~isUserScrolling') =>
             \E t \in timers : t.id = scrollTimeout /\ t \notin timers']_vars

\* the list was scrolled twice, the second timeout ran and the next active
\* row was scrolled into view
C22_Witness ==
    /\ scrollTimeout >= 2
    /\ timers = {}
    /\ ~isUserScrolling
    /\ lastAutoScroll.row # -1
    /\ lastAutoScroll.since = RESUME_DELAY

\* C24: a KaraokeText is rendered exactly when some segment holds the
\* playback time in [startTime, endTime), and then exactly one word of the
\* first line is current, every word before it past and every word after
\* it future.
C24_OneCurrentWord ==
    /\ (karaokeState = "rendered") <=>
           (\E k \in 1..Len(listSubtitles) : IsActive(listSubtitles[k], currentTime))
    /\ karaokeState = "rendered" =>
           \E c \in 1..Len(wordStates) :
               /\ wordStates[c] = "current"
               /\ \A j \in 1..(c - 1) : wordStates[j] = "past"
               /\ \A j \in (c + 1)..Len(wordStates) : wordStates[j] = "future"

\* the second of three words is the current one
C24_Witness ==
    /\ karaokeState = "rendered"
    /\ wordStates = <<"past", "current", "future">>

\* C25, as stated: KaraokeText is rendered with endTime - startTime > 0 and
\* 0 <= currentTime - startTime < endTime - startTime only, and the
\* character position it estimates is below the length of the first line.
C25_EstimatorDomain_AsStated ==
    karaokeState = "rendered" =>
        /\ ~karaoke.startTime.nan /\ ~karaoke.endTime.nan /\ ~karaoke.currentTime.nan
        /\ karaoke.endTime.ms - karaoke.startTime.ms > 0
        /\ karaoke.currentTime.ms - karaoke.startTime.ms >= 0
        /\ karaoke.currentTime.ms - karaoke.startTime.ms
              < karaoke.endTime.ms - karaoke.startTime.ms
        /\ ~currentCharField.nan
        /\ currentCharField.val >= 0
        /\ currentCharField.val < Len(karaoke.text)

\* C25: KaraokeText is rendered with endTime - startTime > 0 and
\* 0 <= currentTime - startTime < endTime - startTime only, and the
\* character position it estimates is below the length of the first line,
\* or 0 when the first line is empty.
C25_EstimatorDomain ==
    karaokeState = "rendered" =>
        /\ ~karaoke.startTime.nan /\ ~karaoke.endTime.nan /\ ~karaoke.currentTime.nan
        /\ karaoke.endTime.ms - karaoke.startTime.ms > 0
        /\ karaoke.currentTime.ms - karaoke.startTime.ms >= 0
        /\ karaoke.currentTime.ms - karaoke.startTime.ms
              < karaoke.endTime.ms - karaoke.startTime.ms
        /\ ~currentCharField.nan
        /\ currentCharField.val >= 0
        /\ IF karaoke.text = <<>> THEN currentCharField.val = 0
           ELSE currentCharField.val < Len(karaoke.text)

\* the first segment is degenerate, the second one is active and its
\* KaraokeText is past the first character
C25_Witness ==
    /\ karaokeState = "rendered"
    /\ ~Lt(listSubtitles[1].startTime, listSubtitles[1].endTime)
    /\ activeIndex = 1
    /\ currentCharField.val > 0

\* C27: a click on a subtitle row sets the playback position of the media
\* element to the startTime of its segment, whatever the seek before it was
\* for and wherever the playback position has got to since: once the click
\* is handled (handleSubtitleSeek, the render and PlayerBar's effect) the
\* position is that startTime.
C27_ClickSeeks ==
    [][Len(seekClicks') = Len(seekClicks) + 1 =>
          mediaCurrentTime' = seekClicks'[Len(seekClicks')]]_vars

\* C28: whenever the AI modal is not loading, the explanation it holds is
\* empty or is what explainText returned for the text now selected, under
\* every interleaving of handleAnalyze calls and returns of explainText.
C28_ExplanationOfSelectedText ==
    ~aiLoading => (aiExplanation = NoExplanation \/ aiExplanation.of = selectedText)

\* C29: the task displayed is affected only by the run started for it: an
\* update, a completion, an error or the 5-second timeout of a run never
\* changes or clears the UploadTask a later handleStartUpload created.
C29_TaskOwnedByItsRun ==
    [][(/\ lastCallback' # 0
        /\ activeUpload # NoTask
        /\ activeUpload.id # TaskId(lastCallback')) =>
          activeUpload' = activeUpload]_vars

(***************************************************************************)
(* Properties of saveSession with parallel uploads                         *)
(***************************************************************************)

\* C30: a session record has a cover_path only if the cover object was
\* stored: whatever the outcomes of the cover upload, the media upload and
\* the insert, no row of the table names a cover that is not in the bucket.
C30_CoverPathOnlyIfStored ==
    \A row \in table : row.cover_path # NoPath => row.cover_path \in storage

=============================================================================
